---- MODULE Spec2Model ----
(***************************************************************************)
(* Model of the retry executors of amidgo/repeater:                        *)
(*   - the middleware-based Retry(ctx, rf, middlewares...) with the        *)
(*     WithBackoff / WithMaxRetryCount middlewares,                        *)
(*   - Policy.Retry and Policy.RetryContext with a loop-local counter.     *)
(* One retry call is modelled per behaviour; the entry point and its       *)
(* configuration are chosen in Init, the operation's results and the       *)
(* context's cancellation are chosen by the environment actions.           *)
(***************************************************************************)
EXTENDS Integers, Sequences, FiniteSets

\* ---------------------------------------------------------------- bounds
MaxRetry == 2        \* largest retry budget (retryCount / maxRetryCount)
MaxCalls == 4        \* cap on the invocations of the operation in one call
MaxOverride == 1     \* the positive backoff override an operation asks for
PlainDur == 2        \* the non-zero constant of the Plain strategy
MaxBase == 4         \* largest base duration given to the Fibonacci strategy
MaxAttempt == 9      \* largest attempt index the Fibonacci strategy is asked for
MaxDelta == 2        \* largest initial and delta given to the Arifmetic strategy
MaxStored == 1       \* most attempts the storage holds when requests.Policy.Retry starts
MaxIndex == 93       \* largest attempt index asked of Fibonacci in 64-bit words

Last(seq) == seq[Len(seq)]

\* ---------------------------------------------------------------- errors
\* An error value: nil, a plain error, or the result of errors.Join.
Nil == [kind |-> "nil", name |-> "", errs |-> <<>>]
Atom(n) == [kind |-> "atom", name |-> n, errs |-> <<>>]

ErrRetryCountExceeded == Atom("retry count exceeded")

\* errors.Join(a, b): nil arguments are discarded, nil if none is left.
Join(a, b) ==
  IF a = Nil /\ b = Nil THEN Nil
  ELSE IF a = Nil THEN [kind |-> "join", name |-> "", errs |-> <<b>>]
  ELSE IF b = Nil THEN [kind |-> "join", name |-> "", errs |-> <<a>>]
  ELSE [kind |-> "join", name |-> "", errs |-> <<a, b>>]

\* the errors an operation aborts with / reports as recoverable
OpErrs == {Atom("e1"), Atom("e2")}
RecoverErrs == {Atom("e1")}
\* the causes a context can be cancelled with
Causes == {Atom("context canceled"), Atom("custom cause")}

\* ---------------------------------------------------------------- Result
codeContinue == 0
codeFinished == 1

Continue == [code |-> codeContinue, backoff |-> 0, err |-> Nil]
Recover(recoverErr) == [code |-> codeContinue, backoff |-> 0, err |-> recoverErr]
RecoverAfter(recoverErr, backoff) ==
  [code |-> codeContinue, backoff |-> backoff, err |-> recoverErr]
Abort(err) == [code |-> codeFinished, backoff |-> 0, err |-> err]

\* variant of RetryAfter: a zero override asks for an immediate retry
RetryAfter_ZeroIsImmediate(backoff) ==
  [code |-> codeContinue, backoff |-> IF backoff = 0 THEN 0 - 1 ELSE backoff, err |-> Nil]

RetryAfter(backoff) == [code |-> codeContinue, backoff |-> backoff, err |-> Nil]

Finish == [code |-> codeFinished, backoff |-> 0, err |-> Nil]

\* variant of retryCountExceeded: the join lists the last error first
retryCountExceeded_Swapped(lastResultErr) ==
  [code |-> codeFinished, backoff |-> 0,
   err |-> IF lastResultErr # Nil THEN Join(lastResultErr, ErrRetryCountExceeded)
           ELSE ErrRetryCountExceeded]

\* Policy's exhaustion result (loop-local counter variant)
retryCountExceeded(lastResultErr) ==
  [code |-> codeFinished, backoff |-> 0,
   err |-> IF lastResultErr # Nil THEN Join(ErrRetryCountExceeded, lastResultErr)
           ELSE ErrRetryCountExceeded]

\* ---------------------------------------------------------------- Backoff
RECURSIVE fibLoop(_, _, _, _)
fibLoop(i, n, n2, n1) == IF i > n THEN n1 ELSE fibLoop(i + 1, n, n1, n1 + n2)

\* variant of fibonacciIterative: the loop starts at i = 3
fibonacciIterative_Lag(n) == IF n <= 1 THEN n ELSE fibLoop(3, n, 0, 1)

\* n2, n1 = 0, 1; for i := 2; i <= n; i++ { n2, n1 = n1, n1+n2 }
fibonacciIterative(n) == IF n <= 1 THEN n ELSE fibLoop(2, n, 0, 1)

Plain(backoff) == [kind |-> "Plain", a |-> backoff, b |-> 0]
Arifmetic(initial, delta) == [kind |-> "Arifmetic", a |-> initial, b |-> delta]
Fibonacci(base) == [kind |-> "Fibonacci", a |-> base, b |-> 0]

\* variant of BackoffAt: Arifmetic counts the attempts from 1
BackoffAt_ArifFromOne(bk, attempt) ==
  CASE bk.kind = "Plain" -> bk.a
    [] bk.kind = "Arifmetic" -> bk.a + (bk.b * (attempt + 1))
    [] bk.kind = "Fibonacci" -> bk.a * fibonacciIterative(attempt + 1)

\* calling a Backoff (or DurationProgression.Duration) at an attempt index
BackoffAt(bk, attempt) ==
  CASE bk.kind = "Plain" -> bk.a
    [] bk.kind = "Arifmetic" -> bk.a + (bk.b * attempt)
    [] bk.kind = "Fibonacci" -> bk.a * fibonacciIterative(attempt + 1)

Backoffs == {Plain(0), Plain(PlainDur), Arifmetic(0, 1), Fibonacci(1)}

\* ------------------------------------------------------------- middlewares
\* A Middleware value; the Func it returns owns one private attempt counter.
WithBackoff(backoff) ==
  [kind |-> "WithBackoff", backoff |-> backoff, maxRetryCount |-> 0]
WithMaxRetryCount(maxRetryCount) ==
  [kind |-> "WithMaxRetryCount", backoff |-> Plain(0), maxRetryCount |-> maxRetryCount]

\* variant of backoffMiddleware: a result with an override does not advance
\* the attempt counter
backoffMiddleware_NoCountOnOverride(attempt, backoff, r) ==
  IF r.code # codeContinue THEN <<attempt, r>>
  ELSE IF r.backoff # 0 THEN <<attempt, r>>
  ELSE <<attempt + 1, [r EXCEPT !.backoff = BackoffAt(backoff, attempt)]>>

\* variant of backoffMiddleware: the strategy's value replaces an override
backoffMiddleware_AlwaysInject(attempt, backoff, r) ==
  IF r.code # codeContinue THEN <<attempt, r>>
  ELSE <<attempt + 1, [r EXCEPT !.backoff = BackoffAt(backoff, attempt)]>>

\* variant of backoffMiddleware: terminal results advance the counter too
backoffMiddleware_CountsTerminal(attempt, backoff, r) ==
  IF r.code # codeContinue THEN <<attempt + 1, r>>
  ELSE IF r.backoff # 0 THEN <<attempt + 1, r>>
  ELSE <<attempt + 1, [r EXCEPT !.backoff = BackoffAt(backoff, attempt)]>>

\* (attempt, res) after the WithBackoff closure has seen the inner result
backoffMiddleware(attempt, backoff, r) ==
  IF r.code # codeContinue THEN <<attempt, r>>
  ELSE IF r.backoff # 0 THEN <<attempt + 1, r>>
  ELSE <<attempt + 1, [r EXCEPT !.backoff = BackoffAt(backoff, attempt)]>>

\* variant of retryCountExceededMiddleware: the budget is tested before the
\* result's code
retryCountExceededMiddleware_BudgetFirst(attempt, maxRetryCount, r) ==
  IF attempt < maxRetryCount
    THEN (IF r.code # codeContinue THEN <<attempt, r>> ELSE <<attempt + 1, r>>)
  ELSE IF r.err = Nil THEN <<attempt, Abort(ErrRetryCountExceeded)>>
  ELSE <<attempt, Abort(Join(ErrRetryCountExceeded, r.err))>>

\* variant of retryCountExceededMiddleware: `attempt <= maxRetryCount`
retryCountExceededMiddleware_OffByOne(attempt, maxRetryCount, r) ==
  IF r.code # codeContinue THEN <<attempt, r>>
  ELSE IF attempt <= maxRetryCount THEN <<attempt + 1, r>>
  ELSE IF r.err = Nil THEN <<attempt, Abort(ErrRetryCountExceeded)>>
  ELSE <<attempt, Abort(Join(ErrRetryCountExceeded, r.err))>>

\* variant of retryCountExceededMiddleware: on exhaustion it aborts with the
\* result's own error and forgets the sentinel
retryCountExceededMiddleware_NoSentinel(attempt, maxRetryCount, r) ==
  IF r.code # codeContinue THEN <<attempt, r>>
  ELSE IF attempt < maxRetryCount THEN <<attempt + 1, r>>
  ELSE <<attempt, Abort(r.err)>>

\* variant of retryCountExceededMiddleware: the counter keeps advancing once
\* the budget is used up
retryCountExceededMiddleware_CountsOn(attempt, maxRetryCount, r) ==
  IF r.code # codeContinue THEN <<attempt, r>>
  ELSE IF attempt < maxRetryCount THEN <<attempt + 1, r>>
  ELSE IF r.err = Nil THEN <<attempt + 1, Abort(ErrRetryCountExceeded)>>
  ELSE <<attempt + 1, Abort(Join(ErrRetryCountExceeded, r.err))>>

\* variant of retryCountExceededMiddleware: the aborting result keeps the
\* backoff of the result it replaces
retryCountExceededMiddleware_KeepsBackoff(attempt, maxRetryCount, r) ==
  IF r.code # codeContinue THEN <<attempt, r>>
  ELSE IF attempt < maxRetryCount THEN <<attempt + 1, r>>
  ELSE IF r.err = Nil
    THEN <<attempt, [Abort(ErrRetryCountExceeded) EXCEPT !.backoff = r.backoff]>>
  ELSE <<attempt, [Abort(Join(ErrRetryCountExceeded, r.err)) EXCEPT !.backoff = r.backoff]>>

\* (attempt, res) after the WithMaxRetryCount closure has seen the inner result
retryCountExceededMiddleware(attempt, maxRetryCount, r) ==
  IF r.code # codeContinue THEN <<attempt, r>>
  ELSE IF attempt < maxRetryCount THEN <<attempt + 1, r>>
  ELSE IF r.err = Nil THEN <<attempt, Abort(ErrRetryCountExceeded)>>
  ELSE <<attempt, Abort(Join(ErrRetryCountExceeded, r.err))>>

\* one wrapped Func: it passes the inner result through its middleware
CallMiddleware(mdw, attempt, r) ==
  IF mdw.kind = "WithBackoff" THEN backoffMiddleware(attempt, mdw.backoff, r)
  ELSE retryCountExceededMiddleware(attempt, mdw.maxRetryCount, r)

\* variant of ApplyChain: rf is wrapped with the middlewares in declaration
\* order, so the result of the operation passes the first middleware first
RECURSIVE ApplyChain_Forward(_, _, _, _)
ApplyChain_Forward(i, mdws, attempts, r) ==
  IF i = 0 THEN [res |-> r, attempts |-> attempts]
  ELSE LET j == Len(mdws) - i + 1
           out == CallMiddleware(mdws[j], attempts[j], r)
       IN ApplyChain_Forward(i - 1, mdws, [attempts EXCEPT ![j] = out[1]], out[2])

\* Retry wraps rf with the middlewares from the last to the first, so the
\* result of the operation passes the last middleware first.
RECURSIVE ApplyChain(_, _, _, _)
ApplyChain(i, mdws, attempts, r) ==
  IF i = 0 THEN [res |-> r, attempts |-> attempts]
  ELSE LET out == CallMiddleware(mdws[i], attempts[i], r)
       IN ApplyChain(i - 1, mdws, [attempts EXCEPT ![i] = out[1]], out[2])

MiddlewareLists ==
  {<<>>}
  \cup {<<WithBackoff(b)>> : b \in Backoffs}
  \cup {<<WithMaxRetryCount(n)>> : n \in 0..MaxRetry}
  \cup {<<WithBackoff(b), WithMaxRetryCount(n)>> : b \in Backoffs, n \in 0..MaxRetry}
  \cup {<<WithMaxRetryCount(n), WithBackoff(b)>> : b \in Backoffs, n \in 0..MaxRetry}

\* ------------------------------------------------------------- operation
Overrides == {0 - 1, MaxOverride}

\* the Results an operation can build with the exported constructors
OpResults(m) ==
  {Continue, Finish}
  \cup {Recover(e) : e \in RecoverErrs}
  \cup {Abort(e) : e \in OpErrs}
  \cup {RetryAfter(d) : d \in Overrides}
  \cup (IF m = "Retry" THEN {RecoverAfter(e, d) : e \in RecoverErrs, d \in Overrides}
        ELSE {})

\* ------------------------------------------------------------- executor
\* the sleep the middleware-based loop derives from a non-terminal result
RetrySleepTime(r) == r.backoff

\* variant of PolicySleepTime: result.retryAfter is not consulted
PolicySleepTime_NoOverride(prog, att, result) == BackoffAt(prog, att)

\* the sleep the Policy loop derives from a non-terminal result
PolicySleepTime(prog, att, result) ==
  IF result.backoff # 0 THEN result.backoff ELSE BackoffAt(prog, att)

\* variant of NoSleep: `sleepTime < 0`
NoSleep_Strict(sleepTime) == sleepTime < 0

\* sleepTime <= 0: call the operation again without a timer
NoSleep(sleepTime) == sleepTime <= 0

\* variant of CancelErr: ctx.Err() of a cancelled context instead of its cause
CancelErr_CtxErr(cause, lastErr) ==
  IF lastErr # Nil THEN Join(Atom("context canceled"), lastErr)
  ELSE Atom("context canceled")

\* variant of CancelErr: the join lists the last error first
CancelErr_Swapped(cause, lastErr) ==
  IF lastErr # Nil THEN Join(lastErr, cause) ELSE cause

\* the error of the ctx.Done() branch of the select
CancelErr(cause, lastErr) == IF lastErr # Nil THEN Join(cause, lastErr) ELSE cause

\* ------------------------------------------------------------- state
VARIABLES
  mode,         \* the entry point: "Retry", "PolicyRetry", "PolicyRetryContext"
  progression,  \* Policy.progression
  retryCount,   \* Policy.retryCount
  middlewares,  \* the middlewares handed to Retry
  mwAttempt,    \* the private attempt counter of each wrapped Func
  ctxCause,     \* context.Cause(ctx): Nil while the context is not done
  pc,           \* "start", "inop", "call", "select", "parked", "done"
  site,         \* which call site invoked the operation last
  res,          \* the executor's res / result variable
  attempt,      \* the loop variable of Policy's for-range
  calls,        \* invocations of the operation so far
  timerFired,   \* the timer of the current sleep has expired
  wake,         \* the event that woke the parked select
  retErr,       \* the error handed back to the caller
  rawLog,       \* the Results the operation itself returned, in order
  sleepLog,     \* the sleepTime computed after each non-terminal result
  slept,        \* the durations of the sleeps that ran until their timer
  inv,          \* the locals of two invocations on one Policy value
  wf,           \* a wrapped Func that outlives one Retry call, and its runs
  fib,          \* one evaluation of a Fibonacci backoff
  bk,           \* a Plain or Arifmetic backoff and the calls made to it
  http,         \* one Transport.RoundTrip of the retrying HTTP transport
  rep,          \* one Repeat / RepeatContext of the Sleeper-based Repeater
  req,          \* one requests.Policy.Retry and its storage
  tk,           \* one RepeatContext of the goroutine-ticker repeater
  lv,           \* one Retry call whose operation never gives up
  two,          \* two Retry calls handed the same Middleware values
  pair,         \* two retry calls run side by side on one script
  f64           \* one evaluation of Fibonacci in 64-bit arithmetic

vars == <<mode, progression, retryCount, middlewares, mwAttempt, ctxCause, pc,
          site, res, attempt, calls, timerFired, wake, retErr, rawLog, sleepLog, slept,
          inv, wf, fib, bk, http, rep, req, tk, lv, two, pair, f64>>

\* the locals of the single retry call
callVars == <<mwAttempt, ctxCause, pc, site, res, attempt, calls, timerFired,
              wake, retErr, rawLog, sleepLog, slept>>

\* the state of the other scenarios, which a single retry call never touches
frame == <<inv, wf, fib, bk, http, rep, req, tk, lv, two, pair, f64>>

\* the scenarios of the goroutine ticker, of cancellation, of shared
\* middlewares, of paired calls, and of 64-bit Fibonacci
later == <<tk, lv, two, pair, f64>>

\* the scenarios of the backoff values, the HTTP transport, the Repeater
\* and the request processor, and the later ones
others == <<bk, http, rep, req, later>>

NoInv == <<>>
NoWf == [pc |-> "none"]
NoFib == [pc |-> "none"]
NoBk == [pc |-> "none"]
NoHttp == [pc |-> "none"]
NoRep == [pc |-> "none"]
NoReq == [pc |-> "none"]
NoTk == [pc |-> "none"]
NoLv == [pc |-> "none"]
NoTwo == <<>>
NoPair == [pc |-> "none"]
NoF64 == [pc |-> "none"]

\* none of the scenarios in `later` is running
LaterIdle ==
  /\ tk = NoTk
  /\ lv = NoLv
  /\ two = NoTwo
  /\ pair = NoPair
  /\ f64 = NoF64

\* none of the scenarios in `others` is running
OthersIdle ==
  /\ bk = NoBk
  /\ http = NoHttp
  /\ rep = NoRep
  /\ req = NoReq
  /\ LaterIdle

config == <<mode, progression, retryCount, middlewares>>

Modes == {"Retry", "PolicyRetry", "PolicyRetryContext"}

Init ==
  /\ mode \in Modes
  /\ IF mode = "Retry"
       THEN /\ middlewares \in MiddlewareLists
            /\ progression = Plain(0)
            /\ retryCount = 0
       ELSE /\ middlewares = <<>>
            /\ progression \in Backoffs
            /\ retryCount \in 0..MaxRetry
  /\ mwAttempt = <<>>
  /\ ctxCause \in (IF mode = "PolicyRetry" THEN {Nil} ELSE {Nil} \cup Causes)
  /\ pc = "start"
  /\ site = "none"
  /\ res = Continue
  /\ attempt = 0
  /\ calls = 0
  /\ timerFired = FALSE
  /\ wake = "none"
  /\ retErr = Nil
  /\ rawLog = <<>>
  /\ sleepLog = <<>>
  /\ slept = <<>>
  /\ inv = NoInv
  /\ wf = NoWf
  /\ fib = NoFib
  /\ OthersIdle

\* ------------------------------------------------------------- environment
\* the context is cancelled (or its deadline passes) with cause c; a
\* cancellation after the call has returned is of no interest
Cancel ==
  /\ mode # "PolicyRetry"
  /\ pc # "done"
  /\ ctxCause = Nil
  /\ \E c \in Causes : ctxCause' = c
  /\ wake' = IF pc = "parked" /\ wake = "none" THEN "ctx" ELSE wake
  /\ UNCHANGED <<config, frame, mwAttempt, pc, site, res, attempt, calls, timerFired,
                 retErr, rawLog, sleepLog, slept>>

\* the timer of the current sleep expires
TimerExpire ==
  /\ pc \in {"select", "parked"}
  /\ ~timerFired
  /\ timerFired' = TRUE
  /\ wake' = IF pc = "parked" /\ wake = "none" THEN "timer" ELSE wake
  /\ UNCHANGED <<config, frame, mwAttempt, ctxCause, pc, site, res, attempt, calls,
                 retErr, rawLog, sleepLog, slept>>

\* ------------------------------------------------------------- shared steps
\* rf(ctx) is entered
Invoke(s) ==
  /\ pc' = "inop"
  /\ site' = s
  /\ calls' = calls + 1

\* the loop goes on after a non-terminal result with the given sleepTime
Pause(sleepTime) ==
  /\ sleepLog' = Append(sleepLog, sleepTime)
  /\ IF NoSleep(sleepTime)
       THEN pc' = "call" /\ site' = "immediate"
       ELSE pc' = "select" /\ site' = site
  /\ timerFired' = FALSE
  /\ wake' = "none"
  /\ retErr' = retErr
  /\ slept' = slept

\* variant of Return: the error is joined with the one of the result the
\* executor held before
Return_JoinsLast(err) ==
  /\ pc' = "done"
  /\ retErr' = IF err # Nil /\ res.err # Nil /\ pc = "inop"
                 THEN Join(err, res.err) ELSE err
  /\ UNCHANGED <<site, timerFired, wake, sleepLog, slept>>

\* the call returns err
Return(err) ==
  /\ pc' = "done"
  /\ retErr' = err
  /\ UNCHANGED <<site, timerFired, wake, sleepLog, slept>>

\* variant of Call: the operation is called again while it is still running
Call_NoWait ==
  /\ pc \in {"call", "inop"}
  /\ calls < MaxCalls
  /\ Invoke(site)
  /\ UNCHANGED <<config, frame, mwAttempt, ctxCause, res, attempt, timerFired, wake,
                 retErr, rawLog, sleepLog, slept>>

\* variant of Call: the context is tested before every re-invocation
Call_ChecksCtx ==
  /\ pc = "call"
  /\ calls < MaxCalls
  /\ IF ctxCause # Nil
       THEN pc' = "done" /\ retErr' = ctxCause /\ UNCHANGED <<site, calls>>
       ELSE Invoke(site) /\ retErr' = retErr
  /\ UNCHANGED <<config, frame, mwAttempt, ctxCause, res, attempt, timerFired, wake,
                 rawLog, sleepLog, slept>>

\* the re-invocation after `sleepTime <= 0` or after `<-timer.C`
Call ==
  /\ pc = "call"
  /\ calls < MaxCalls
  /\ Invoke(site)
  /\ UNCHANGED <<config, frame, mwAttempt, ctxCause, res, attempt, timerFired, wake,
                 retErr, rawLog, sleepLog, slept>>

\* the `case <-timer.C` branch: the operation is called again
TimerBranch ==
  /\ pc' = "call"
  /\ site' = "timer"
  /\ slept' = Append(slept, Last(sleepLog))
  /\ UNCHANGED <<config, frame, mwAttempt, ctxCause, res, attempt, calls, timerFired,
                 wake, retErr, rawLog, sleepLog>>

\* ------------------------------------------------------------- Retry
\* Retry wraps rf with the middlewares and calls it once, before any sleep
Retry_Start ==
  /\ mode = "Retry"
  /\ pc = "start"
  /\ mwAttempt' = [i \in 1..Len(middlewares) |-> 0]
  /\ Invoke("initial")
  /\ UNCHANGED <<config, frame, ctxCause, res, attempt, timerFired, wake, retErr,
                 rawLog, sleepLog, slept>>

\* the wrapped rf returns: terminal results end the call, the others lead
\* to the next call (sleepTime <= 0) or to the timer
Retry_Result ==
  /\ mode = "Retry"
  /\ pc = "inop"
  /\ \E raw \in OpResults(mode) :
       LET out == ApplyChain(Len(middlewares), middlewares, mwAttempt, raw)
       IN /\ rawLog' = Append(rawLog, raw)
          /\ mwAttempt' = out.attempts
          /\ res' = out.res
          /\ IF out.res.code # codeContinue
               THEN Return(out.res.err)
               ELSE Pause(RetrySleepTime(out.res))
  /\ UNCHANGED <<config, frame, ctxCause, attempt, calls>>

\* the `case <-ctx.Done()` branch of Retry
Retry_CtxDone ==
  /\ Return(CancelErr(ctxCause, res.err))
  /\ UNCHANGED <<config, frame, mwAttempt, ctxCause, res, attempt, calls, rawLog>>

\* Retry reaches the select: a ready case is taken (any one of them when
\* both are ready), and with no ready case the goroutine parks
Retry_Select ==
  /\ mode = "Retry"
  /\ pc = "select"
  /\ IF ctxCause = Nil /\ ~timerFired
       THEN /\ pc' = "parked"
            /\ UNCHANGED <<config, frame, mwAttempt, ctxCause, site, res, attempt,
                           calls, timerFired, wake, retErr, rawLog, sleepLog, slept>>
       ELSE \/ ctxCause # Nil /\ Retry_CtxDone
            \/ timerFired /\ TimerBranch

\* the parked select of Retry is woken by the first event
Retry_Wake ==
  /\ mode = "Retry"
  /\ pc = "parked"
  /\ \/ wake = "ctx" /\ Retry_CtxDone
     \/ wake = "timer" /\ TimerBranch

\* ------------------------------------------------------------- Policy
\* result = rf(): the first call, before the for-range loop
PolicyStart ==
  /\ pc = "start"
  /\ Invoke("initial")
  /\ UNCHANGED <<config, frame, mwAttempt, ctxCause, res, attempt, timerFired, wake,
                 retErr, rawLog, sleepLog, slept>>

\* variant of PolicyResult: a result without an error leaves the error of an
\* earlier result pending
PolicyResult_KeepsErr ==
  /\ pc = "inop"
  /\ \E raw \in OpResults(mode) :
       LET next == IF site = "initial" THEN 0 ELSE attempt + 1
           kept == IF raw.err = Nil THEN [raw EXCEPT !.err = res.err] ELSE raw
       IN /\ rawLog' = Append(rawLog, raw)
          /\ IF raw.code # codeContinue
               THEN /\ res' = raw
                    /\ attempt' = attempt
                    /\ Return(raw.err)
               ELSE IF next < retryCount
                 THEN /\ res' = kept
                      /\ attempt' = next
                      /\ Pause(PolicySleepTime(progression, next, raw))
                 ELSE /\ res' = retryCountExceeded(kept.err)
                      /\ attempt' = attempt
                      /\ Return(retryCountExceeded(kept.err).err)
  /\ UNCHANGED <<config, frame, mwAttempt, ctxCause, calls>>

\* variant of PolicyResult: the loop runs while `attempt <= retryCount`
PolicyResult_OffByOne ==
  /\ pc = "inop"
  /\ \E raw \in OpResults(mode) :
       LET next == IF site = "initial" THEN 0 ELSE attempt + 1
       IN /\ rawLog' = Append(rawLog, raw)
          /\ IF raw.code # codeContinue
               THEN /\ res' = raw
                    /\ attempt' = attempt
                    /\ Return(raw.err)
               ELSE IF next <= retryCount
                 THEN /\ res' = raw
                      /\ attempt' = next
                      /\ Pause(PolicySleepTime(progression, next, raw))
                 ELSE /\ res' = retryCountExceeded(raw.err)
                      /\ attempt' = attempt
                      /\ Return(retryCountExceeded(raw.err).err)
  /\ UNCHANGED <<config, frame, mwAttempt, ctxCause, calls>>

\* rf returns inside Policy.Retry / Policy.RetryContext: a terminal result
\* is returned as it is; otherwise the for-range over retryCount either
\* starts its next iteration or is over (retryCountExceeded)
PolicyResult ==
  /\ pc = "inop"
  /\ \E raw \in OpResults(mode) :
       LET next == IF site = "initial" THEN 0 ELSE attempt + 1
       IN /\ rawLog' = Append(rawLog, raw)
          /\ IF raw.code # codeContinue
               THEN /\ res' = raw
                    /\ attempt' = attempt
                    /\ Return(raw.err)
               ELSE IF next < retryCount
                 THEN /\ res' = raw
                      /\ attempt' = next
                      /\ Pause(PolicySleepTime(progression, next, raw))
                 ELSE /\ res' = retryCountExceeded(raw.err)
                      /\ attempt' = attempt
                      /\ Return(retryCountExceeded(raw.err).err)
  /\ UNCHANGED <<config, frame, mwAttempt, ctxCause, calls>>

PolicyRetry_Start == mode = "PolicyRetry" /\ PolicyStart

PolicyRetry_Result == mode = "PolicyRetry" /\ PolicyResult

\* <-time.After(sleepTime) of Policy.Retry
PolicyRetry_After ==
  /\ mode = "PolicyRetry"
  /\ pc = "select"
  /\ timerFired
  /\ TimerBranch

PolicyRetryContext_Start == mode = "PolicyRetryContext" /\ PolicyStart

PolicyRetryContext_Result == mode = "PolicyRetryContext" /\ PolicyResult

\* the `case <-ctx.Done()` branch of Policy.RetryContext
PolicyRetryContext_CtxDone ==
  /\ res' = Abort(CancelErr(ctxCause, res.err))
  /\ Return(CancelErr(ctxCause, res.err))
  /\ UNCHANGED <<config, frame, mwAttempt, ctxCause, attempt, calls, rawLog>>

PolicyRetryContext_Select ==
  /\ mode = "PolicyRetryContext"
  /\ pc = "select"
  /\ IF ctxCause = Nil /\ ~timerFired
       THEN /\ pc' = "parked"
            /\ UNCHANGED <<config, frame, mwAttempt, ctxCause, site, res, attempt,
                           calls, timerFired, wake, retErr, rawLog, sleepLog, slept>>
       ELSE \/ ctxCause # Nil /\ PolicyRetryContext_CtxDone
            \/ timerFired /\ TimerBranch

PolicyRetryContext_Wake ==
  /\ mode = "PolicyRetryContext"
  /\ pc = "parked"
  /\ \/ wake = "ctx" /\ PolicyRetryContext_CtxDone
     \/ wake = "timer" /\ TimerBranch

\* ------------------------------------------------------------- specification
Next ==
  \/ Cancel
  \/ TimerExpire
  \/ Call
  \/ Retry_Start
  \/ Retry_Result
  \/ Retry_Select
  \/ Retry_Wake
  \/ PolicyRetry_Start
  \/ PolicyRetry_Result
  \/ PolicyRetry_After
  \/ PolicyRetryContext_Start
  \/ PolicyRetryContext_Result
  \/ PolicyRetryContext_Select
  \/ PolicyRetryContext_Wake

Spec == Init /\ [][Next]_vars

\* ------------------------------------------------------------- vocabulary
IsTerminal(r) == r.code = codeFinished

\* errors.Is(err, target) for errors built from plain errors and joins
RECURSIVE ErrorsIs(_, _)
ErrorsIs(err, target) ==
  \/ err = target
  \/ err.kind = "join" /\ \E i \in 1..Len(err.errs) : ErrorsIs(err.errs[i], target)

\* the error whose Unwrap() []error is exactly <<first, second>>
Joined(first, second) == [kind |-> "join", name |-> "", errs |-> <<first, second>>]

MaxIdx == {i \in 1..Len(middlewares) : middlewares[i].kind = "WithMaxRetryCount"}
BackoffIdx == {i \in 1..Len(middlewares) : middlewares[i].kind = "WithBackoff"}

\* the call has a retry budget / its value n
HasBudget == mode # "Retry" \/ MaxIdx # {}
Budget ==
  IF mode # "Retry" THEN retryCount
  ELSE middlewares[CHOOSE i \in MaxIdx : TRUE].maxRetryCount

\* the call has a configured backoff strategy / the strategy
HasStrategy == mode # "Retry" \/ BackoffIdx # {}
Strategy ==
  IF mode # "Retry" THEN progression
  ELSE middlewares[CHOOSE i \in BackoffIdx : TRUE].backoff

\* every result the operation returned so far was non-terminal
AllNonTerminal == \A i \in 1..Len(rawLog) : ~IsTerminal(rawLog[i])

\* the call returned because the budget was used up
Exhausted ==
  /\ pc = "done"
  /\ HasBudget
  /\ Len(rawLog) = Budget + 1
  /\ AllNonTerminal

\* the call returned from the ctx.Done() branch of the sleep that followed
\* the last result
Cancelled ==
  /\ pc = "done"
  /\ rawLog # <<>>
  /\ Len(sleepLog) = Len(rawLog)

\* the select of the current sleep sees the context done and no timer tick
CtxWinsRace ==
  \/ pc = "parked" /\ wake = "ctx"
  \/ pc = "select" /\ ctxCause # Nil /\ ~timerFired

\* the select of the current sleep completes in this step
SelectCompletes == pc \in {"select", "parked"} /\ pc' \notin {"select", "parked"}

\* ------------------------------------------------------------- claims
\* C1: the operation is invoked before any sleep, and a terminal result of
\* any attempt ends the call at once with that result's error: it is the
\* last result, no invocation and no sleep follows it, whatever budget is left.
C1_TerminalEndsCall ==
  /\ (pc = "start" => calls = 0 /\ sleepLog = <<>>)
  /\ (pc # "start" => calls >= 1)
  /\ Len(sleepLog) <= Len(rawLog)
  /\ \A i \in 1..Len(rawLog) :
       IsTerminal(rawLog[i]) =>
         /\ i = Len(rawLog)
         /\ pc = "done"
         /\ retErr = rawLog[i].err
         /\ calls = i
         /\ Len(sleepLog) = i - 1

C1_Witness ==
  /\ pc = "done"
  /\ Len(rawLog) = 2
  /\ Last(rawLog) = Finish
  /\ retErr = Nil
  /\ HasBudget
  /\ Budget >= 2

\* C2: with a budget n the operation is invoked at most n+1 times; n+1
\* non-terminal results end the call with ErrRetryCountExceeded; with n = 0
\* there is exactly one invocation.
C2_BudgetBound ==
  HasBudget =>
    /\ calls <= Budget + 1
    /\ (Budget = 0 /\ pc # "start" => calls = 1)
    /\ (Len(rawLog) = Budget + 1 /\ AllNonTerminal =>
          pc = "done" /\ ErrorsIs(retErr, ErrRetryCountExceeded))

C2_Witness ==
  /\ Exhausted
  /\ Budget >= 1
  /\ calls = Budget + 1
  /\ ErrorsIs(retErr, ErrRetryCountExceeded)

\* C3: on exhaustion the final error is the join of ErrRetryCountExceeded
\* and the last attempt's error, in that order, and ErrRetryCountExceeded
\* alone when the last attempt carried no error.
C3_ExhaustedError ==
  Exhausted =>
    retErr = IF Last(rawLog).err # Nil
               THEN Joined(ErrRetryCountExceeded, Last(rawLog).err)
               ELSE ErrRetryCountExceeded

C3_Witness ==
  /\ Exhausted
  /\ Len(rawLog) >= 2
  /\ Last(rawLog).err = Atom("e1")
  /\ retErr = Joined(ErrRetryCountExceeded, Atom("e1"))

\* C4: when the select of a positive sleep observes the cancelled context
\* before the timer has fired, the call returns the context's cause and not
\* ErrRetryCountExceeded, and the operation is not invoked again.
C4_CancelDuringSleep ==
  [][/\ (CtxWinsRace => calls' = calls)
     /\ (CtxWinsRace /\ SelectCompletes =>
           /\ pc' = "done"
           /\ ErrorsIs(retErr', ctxCause)
           /\ ~ErrorsIs(retErr', ErrRetryCountExceeded))
     /\ (pc = "done" => pc' = "done" /\ calls' = calls /\ retErr' = retErr)]_vars

C4_Witness ==
  /\ pc = "done"
  /\ wake = "ctx"
  /\ Cancelled
  /\ HasBudget
  /\ calls <= Budget
  /\ retErr = ctxCause

\* C5: a call cancelled during the sleep after Recover(e) returns the join
\* of the context's cause and e, in that order.
C5_CancelJoinsRecover ==
  Cancelled /\ Last(rawLog).err # Nil =>
    retErr = Joined(ctxCause, Last(rawLog).err)

C5_Witness ==
  /\ Cancelled
  /\ Last(rawLog) = Recover(Atom("e1"))
  /\ retErr = Joined(ctxCause, Atom("e1"))

\* C6: when an attempt returns Abort(e) the call returns exactly e, neither
\* wrapped nor joined with an error remembered from an earlier attempt.
C6_AbortVerbatim ==
  \A e \in OpErrs :
    rawLog # <<>> /\ Last(rawLog) = Abort(e) => pc = "done" /\ retErr = e

C6_Witness ==
  /\ pc = "done"
  /\ Len(rawLog) = 2
  /\ rawLog[1] = Recover(Atom("e1"))
  /\ rawLog[2] = Abort(Atom("e2"))
  /\ retErr = Atom("e2")

\* C7: the sleep after the i-th non-terminal result is that result's
\* override when it is non-zero and otherwise the strategy's value at
\* index i-1; an override does not reach the following sleeps.
C7_EffectiveSleep ==
  HasStrategy =>
    \A i \in 1..Len(sleepLog) :
      sleepLog[i] = IF rawLog[i].backoff # 0 THEN rawLog[i].backoff
                    ELSE BackoffAt(Strategy, i - 1)

C7_Witness ==
  /\ HasStrategy
  /\ Len(sleepLog) = 2
  /\ rawLog[1].backoff # 0
  /\ rawLog[1].backoff # BackoffAt(Strategy, 0)
  /\ sleepLog[1] = rawLog[1].backoff
  /\ rawLog[2].backoff = 0
  /\ sleepLog[2] = BackoffAt(Strategy, 1)
  /\ sleepLog[2] # sleepLog[1]

\* C8: after a non-terminal result with an effective duration <= 0 the
\* operation is called again at once: no timer is started, the call does
\* not return and no error is reported; a timer only runs for a positive
\* duration.
C8_ImmediateRetry ==
  /\ (pc \in {"select", "parked"} => Last(sleepLog) > 0)
  /\ (/\ sleepLog # <<>>
      /\ Len(sleepLog) = Len(rawLog)
      /\ Last(sleepLog) <= 0
      => pc \in {"call", "inop"} /\ site = "immediate" /\ retErr = Nil)

C8_Witness ==
  /\ pc = "inop"
  /\ site = "immediate"
  /\ HasStrategy
  /\ Last(rawLog).backoff < 0
  /\ BackoffAt(Strategy, Len(sleepLog) - 1) > 0
  /\ Last(sleepLog) < 0

\* C9: a call returns nil only when its last attempt returned a terminal
\* result without an error; Abort(e), exhaustion and cancellation all
\* return a non-nil error.
C9_NoSwallowedError ==
  pc = "done" =>
    (retErr = Nil <=> (IsTerminal(Last(rawLog)) /\ Last(rawLog).err = Nil))

C9_Witness ==
  /\ Cancelled
  /\ Last(rawLog) = Continue
  /\ retErr # Nil

\* C10: cancellation only ends the call at the select of a positive sleep:
\* the first invocation and the re-invocations happen whatever the context's
\* state, a running operation is left only by its own result, which becomes
\* the executor's next result, and a call that ends outside a select ends
\* by a result of the operation.
C10_CancelOnlyAtSelect ==
  [][/\ (pc = "start" => pc' \in {"start", "inop"})
     /\ (pc = "call" => pc' \in {"call", "inop"})
     /\ (pc = "inop" /\ pc' # "inop" =>
           /\ Len(rawLog') = Len(rawLog) + 1
           /\ (Last(rawLog').err # Nil => ErrorsIs(res'.err, Last(rawLog').err))
           /\ (IsTerminal(Last(rawLog')) => res' = Last(rawLog')))
     /\ (pc # "done" /\ pc' = "done" /\ pc # "inop" =>
           /\ pc \in {"select", "parked"}
           /\ ctxCause # Nil
           /\ Last(sleepLog) > 0)]_vars

C10_Witness ==
  /\ ctxCause # Nil
  /\ pc = "inop"
  /\ site = "immediate"
  /\ calls >= 2

\* C11: the index handed to the strategy for the sleep before the k-th retry
\* is k-1: while a call runs, the counter that supplies the index equals the
\* number of non-terminal results seen so far, whether their sleeps came
\* from the strategy or from an override.
C11_StrategyIndex ==
  pc \notin {"start", "done"} =>
    /\ (mode # "Retry" /\ sleepLog # <<>> => attempt = Len(sleepLog) - 1)
    /\ (mode = "Retry" /\ BackoffIdx # {} =>
          mwAttempt[CHOOSE i \in BackoffIdx : TRUE] = Len(sleepLog))
    /\ (HasStrategy /\ sleepLog # <<>> /\ rawLog[Len(sleepLog)].backoff = 0 =>
          Last(sleepLog) = BackoffAt(Strategy, Len(sleepLog) - 1))

C11_Witness ==
  /\ mode = "Retry"
  /\ BackoffIdx # {}
  /\ pc \notin {"start", "done"}
  /\ Len(sleepLog) = 2
  /\ rawLog[1].backoff # 0
  /\ rawLog[2].backoff = 0
  /\ mwAttempt[CHOOSE i \in BackoffIdx : TRUE] = 2
  /\ sleepLog[2] = BackoffAt(Strategy, 1)
  /\ BackoffAt(Strategy, 1) # BackoffAt(Strategy, 0)

\* C12: a sleep only runs between two attempts: k invocations come with at
\* most k-1 completed sleeps (at "call" the timer branch is entering
\* invocation k+1), no sleep is computed after the attempt that
\* exhausts the budget, and with Plain(d), budget 2 and three Continue
\* results the call sleeps d twice and returns ErrRetryCountExceeded.
C12_SleepsBetweenAttempts ==
  /\ (calls = 0 => slept = <<>>)
  /\ (calls >= 1 /\ pc # "call" => Len(slept) <= calls - 1)
  /\ (pc = "call" => Len(slept) <= calls)
  /\ (Exhausted => Len(sleepLog) = Len(rawLog) - 1 /\ Len(slept) <= Budget)
  /\ (/\ HasBudget /\ Budget = 2
      /\ HasStrategy /\ Strategy = Plain(PlainDur)
      /\ rawLog = <<Continue, Continue, Continue>>
      => /\ pc = "done"
         /\ slept = <<PlainDur, PlainDur>>
         /\ retErr = ErrRetryCountExceeded)

C12_Witness ==
  /\ HasBudget /\ Budget = 2
  /\ HasStrategy /\ Strategy = Plain(PlainDur)
  /\ rawLog = <<Continue, Continue, Continue>>
  /\ pc = "done"
  /\ calls = 3
  /\ slept = <<PlainDur, PlainDur>>

\* C13: the attempts of one call are sequential: the operation is only
\* entered when every earlier invocation has returned its Result, and a
\* Result only comes back from the one invocation that is running.
C13_SequentialAttempts ==
  [][/\ (calls' # calls =>
           /\ calls' = calls + 1
           /\ Len(rawLog) = calls
           /\ pc # "inop"
           /\ pc' = "inop")
     /\ (rawLog' # rawLog =>
           /\ pc = "inop"
           /\ Len(rawLog') = calls
           /\ calls' = calls)]_vars

C13_Witness ==
  /\ pc = "inop"
  /\ calls = 3
  /\ Len(rawLog) = 2

\* the wrapped rf of Retry hands a Result of the operation to the executor
RetryResultStep == mode = "Retry" /\ pc = "inop" /\ rawLog' # rawLog

\* C14: Retry wraps the operation as m1(m2(...mk(op))): each Result of the
\* operation passes the last-declared middleware first and the
\* first-declared one last, and the executor sees that one's output.
C14_ReverseOrder ==
  [][RetryResultStep =>
       LET raw == Last(rawLog')
       IN CASE Len(middlewares) = 0 -> res' = raw
            [] Len(middlewares) = 1 ->
                 LET only == CallMiddleware(middlewares[1], mwAttempt[1], raw)
                 IN res' = only[2] /\ mwAttempt' = <<only[1]>>
            [] Len(middlewares) = 2 ->
                 LET inner == CallMiddleware(middlewares[2], mwAttempt[2], raw)
                     outer == CallMiddleware(middlewares[1], mwAttempt[1], inner[2])
                 IN res' = outer[2] /\ mwAttempt' = <<outer[1], inner[1]>>]_vars

C14_Witness ==
  /\ mode = "Retry"
  /\ Len(middlewares) = 2
  /\ middlewares[1].kind = "WithMaxRetryCount"
  /\ pc = "done"
  /\ AllNonTerminal
  /\ Len(rawLog) = 2
  /\ mwAttempt[1] = 1
  /\ mwAttempt[2] = 2

\* C15: WithMaxRetryCount(n), seeing a non-terminal result of the operation:
\* below n it passes the result on unchanged and counts it; at n it turns it
\* into Abort(ErrRetryCountExceeded), joined with the result's error if
\* any, and leaves the counter alone.
C15_MaxRetryCount ==
  [][RetryResultStep /\ middlewares # <<>> /\ ~IsTerminal(Last(rawLog'))
       /\ Last(middlewares).kind = "WithMaxRetryCount" =>
       LET k == Len(middlewares)
           n == middlewares[k].maxRetryCount
           raw == Last(rawLog')
       IN IF mwAttempt[k] < n
            THEN /\ mwAttempt'[k] = mwAttempt[k] + 1
                 /\ (k = 1 => res' = raw)
                 /\ ~IsTerminal(res')
                 /\ res'.err = raw.err
            ELSE /\ mwAttempt[k] = n
                 /\ mwAttempt'[k] = n
                 /\ res' = Abort(IF raw.err = Nil THEN ErrRetryCountExceeded
                                 ELSE Joined(ErrRetryCountExceeded, raw.err))]_vars

C15_Witness ==
  /\ mode = "Retry"
  /\ middlewares = <<WithMaxRetryCount(1)>>
  /\ rawLog = <<RetryAfter(MaxOverride), Recover(Atom("e1"))>>
  /\ mwAttempt = <<1>>
  /\ res = Abort(Joined(ErrRetryCountExceeded, Atom("e1")))
  /\ pc = "done"

\* C16: WithBackoff(strategy), seeing a non-terminal result of the operation:
\* a zero override is replaced by strategy(attempt), a non-zero override is
\* left as it is, and the counter advances by one; a terminal result does
\* not advance it.
C16_WithBackoff ==
  [][RetryResultStep /\ middlewares # <<>>
       /\ Last(middlewares).kind = "WithBackoff" =>
       LET k == Len(middlewares)
           b == middlewares[k].backoff
           raw == Last(rawLog')
           out == IF raw.backoff = 0
                    THEN [raw EXCEPT !.backoff = BackoffAt(b, mwAttempt[k])]
                    ELSE raw
       IN IF IsTerminal(raw)
            THEN mwAttempt'[k] = mwAttempt[k]
            ELSE /\ mwAttempt'[k] = mwAttempt[k] + 1
                 /\ (k = 1 \/ ~IsTerminal(res') => res' = out)]_vars

C16_Witness ==
  /\ mode = "Retry"
  /\ middlewares = <<WithBackoff(Arifmetic(0, 1))>>
  /\ Len(rawLog) = 2
  /\ rawLog[1] = RetryAfter(0 - 1)
  /\ rawLog[2] = Recover(Atom("e1"))
  /\ res = RecoverAfter(Atom("e1"), 1)
  /\ mwAttempt = <<2>>

\* C17: a terminal result of the operation passes WithBackoff and
\* WithMaxRetryCount untouched: the executor gets the identical Result and
\* no attempt counter moves.
C17_TerminalPassThrough ==
  [][RetryResultStep /\ IsTerminal(Last(rawLog')) =>
       /\ res' = Last(rawLog')
       /\ mwAttempt' = mwAttempt]_vars

C17_Witness ==
  /\ mode = "Retry"
  /\ Len(middlewares) = 2
  /\ pc = "done"
  /\ Len(rawLog) = 2
  /\ rawLog[2] = Abort(Atom("e2"))
  /\ res = Abort(Atom("e2"))
  /\ mwAttempt = <<1, 1>>

\* C27: only the error of the latest result is remembered: when the call
\* ends by exhaustion or cancellation and the latest result came without an
\* error (Continue() or RetryAfter(d)), the final error is the bare sentinel
\* or the bare cause, and holds none of the errors earlier results carried.
C27_OnlyLatestError ==
  /\ pc = "done"
  /\ rawLog # <<>>
  /\ ~IsTerminal(Last(rawLog))
  /\ Last(rawLog).err = Nil
  => /\ retErr # Nil
     /\ retErr \in {ErrRetryCountExceeded, ctxCause}
     /\ \A k \in 1..(Len(rawLog) - 1) :
          rawLog[k].err # Nil => ~ErrorsIs(retErr, rawLog[k].err)

C27_Witness ==
  /\ mode = "PolicyRetryContext"
  /\ pc = "done"
  /\ Len(rawLog) = 2
  /\ rawLog[1] = Recover(Atom("e1"))
  /\ rawLog[2] = RetryAfter(MaxOverride)
  /\ Cancelled
  /\ retErr = ctxCause

\* ------------------------------------------------- two calls on one Policy
\* Two invocations of Policy.RetryContext on the same Policy value
\* (progression, retryCount), each with its own context and operation,
\* interleaved in every order. The locals of an invocation (result, the
\* loop variable attempt) live in inv[c]; the Policy itself is never written.
Invs == {1, 2}

\* the single retry call is not running
CallIdle ==
  /\ mwAttempt = <<>>
  /\ ctxCause = Nil
  /\ pc = "none"
  /\ site = "none"
  /\ res = Continue
  /\ attempt = 0
  /\ calls = 0
  /\ timerFired = FALSE
  /\ wake = "none"
  /\ retErr = Nil
  /\ rawLog = <<>>
  /\ sleepLog = <<>>
  /\ slept = <<>>

PolicyResults ==
  {Continue, Recover(Atom("e1")), RetryAfter(0 - 1), Abort(Atom("e2")), Finish}

NewInv ==
  [pc |-> "start", ctx |-> Nil, site |-> "none", result |-> Continue,
   attempt |-> 0, calls |-> 0, rawLog |-> <<>>, sleepLog |-> <<>>, ret |-> Nil]

InitPolicy ==
  /\ mode = "PolicyRetryContext"
  /\ middlewares = <<>>
  /\ progression \in Backoffs
  /\ retryCount \in 0..MaxRetry
  /\ CallIdle
  /\ inv = [c \in Invs |-> NewInv]
  /\ wf = NoWf
  /\ fib = NoFib
  /\ OthersIdle

\* variant of PolicyNextAttempt: the loop counter is a field shared by all
\* invocations on the Policy
PolicyNextAttempt_Shared(c) ==
  LET started == {d \in Invs : inv[d].sleepLog # <<>>}
      top == CHOOSE d \in started : \A e \in started : inv[e].attempt <= inv[d].attempt
  IN IF started = {} THEN 0 ELSE inv[top].attempt + 1

\* `for attempt := range r.retryCount`: the loop variable of invocation c
PolicyNextAttempt(c) ==
  IF inv[c].site = "initial" THEN 0 ELSE inv[c].attempt + 1

\* result = rfctx(ctx), the first call of invocation c
Inv_Start ==
  /\ \E c \in Invs :
       /\ inv[c].pc = "start"
       /\ inv' = [inv EXCEPT ![c].pc = "inop", ![c].site = "initial", ![c].calls = 1]
  /\ UNCHANGED <<config, callVars, others, wf, fib>>

\* rfctx returns in invocation c: return, next iteration or exhaustion
Inv_Result ==
  /\ \E c \in Invs, raw \in PolicyResults :
       /\ inv[c].pc = "inop"
       /\ LET next == PolicyNextAttempt(c)
              me == [inv[c] EXCEPT !.rawLog = Append(@, raw)]
              sleepTime == PolicySleepTime(progression, next, raw)
          IN inv' = [inv EXCEPT ![c] =
               IF raw.code # codeContinue
                 THEN [me EXCEPT !.result = raw, !.pc = "done", !.ret = raw.err]
               ELSE IF next < retryCount
                 THEN IF NoSleep(sleepTime)
                        THEN [me EXCEPT !.result = raw, !.attempt = next,
                                        !.sleepLog = Append(@, sleepTime),
                                        !.site = "immediate", !.calls = @ + 1]
                        ELSE [me EXCEPT !.result = raw, !.attempt = next,
                                        !.sleepLog = Append(@, sleepTime),
                                        !.pc = "select"]
               ELSE [me EXCEPT !.result = retryCountExceeded(raw.err),
                               !.pc = "done",
                               !.ret = retryCountExceeded(raw.err).err]]
  /\ UNCHANGED <<config, callVars, others, wf, fib>>

\* `case <-timer.C` of invocation c
Inv_Timer ==
  /\ \E c \in Invs :
       /\ inv[c].pc = "select"
       /\ inv' = [inv EXCEPT ![c].pc = "inop", ![c].site = "timer", ![c].calls = @ + 1]
  /\ UNCHANGED <<config, callVars, others, wf, fib>>

\* `case <-ctx.Done()` of invocation c
Inv_CtxDone ==
  /\ \E c \in Invs :
       /\ inv[c].pc = "select"
       /\ inv[c].ctx # Nil
       /\ inv' = [inv EXCEPT
            ![c].result = Abort(CancelErr(inv[c].ctx, inv[c].result.err)),
            ![c].ret = CancelErr(inv[c].ctx, inv[c].result.err),
            ![c].pc = "done"]
  /\ UNCHANGED <<config, callVars, others, wf, fib>>

\* the context of invocation c is cancelled while the invocation sleeps
Inv_Cancel ==
  /\ \E c \in Invs :
       /\ inv[c].pc = "select"
       /\ inv[c].ctx = Nil
       /\ inv' = [inv EXCEPT ![c].ctx = Atom("context canceled")]
  /\ UNCHANGED <<config, callVars, others, wf, fib>>

NextPolicy ==
  \/ Inv_Start
  \/ Inv_Result
  \/ Inv_Timer
  \/ Inv_CtxDone
  \/ Inv_Cancel

SpecPolicy == InitPolicy /\ [][NextPolicy]_vars

\* C18: a Policy holds no per-invocation state: whatever the other
\* invocation on the same Policy does, an invocation has retryCount retries
\* of its own, backoff indexes of its own that start at 0, and an outcome
\* that follows from its own results and its own context alone.
C18_PolicyStateless ==
  \A c \in Invs :
    LET me == inv[c]
        last == Last(me.rawLog)
    IN /\ me.calls <= retryCount + 1
       /\ \A k \in 1..Len(me.sleepLog) :
            me.sleepLog[k] = IF me.rawLog[k].backoff # 0 THEN me.rawLog[k].backoff
                             ELSE BackoffAt(progression, k - 1)
       /\ (me.pc # "done" /\ me.sleepLog # <<>> => me.attempt = Len(me.sleepLog) - 1)
       /\ (me.pc = "done" =>
             me.ret = IF IsTerminal(last) THEN last.err
                      ELSE IF Len(me.sleepLog) = Len(me.rawLog)
                        THEN (IF last.err # Nil THEN Joined(me.ctx, last.err)
                              ELSE me.ctx)
                      ELSE IF last.err # Nil
                        THEN Joined(ErrRetryCountExceeded, last.err)
                      ELSE ErrRetryCountExceeded)
       /\ (me.pc = "done" /\ ErrorsIs(me.ret, ErrRetryCountExceeded) =>
             me.calls = retryCount + 1)

C18_Witness ==
  /\ retryCount = 2
  /\ progression = Arifmetic(0, 1)
  /\ inv[2].pc = "done"
  /\ inv[2].calls = 3
  /\ inv[2].ret = Joined(ErrRetryCountExceeded, Atom("e1"))
  /\ inv[1].pc = "done"
  /\ inv[1].calls = 3
  /\ inv[1].sleepLog = <<0, 1>>
  /\ inv[1].ret = ErrRetryCountExceeded

\* ------------------------------------------------- a wrapped Func, reused
\* The caller applies Middleware values to an operation once,
\* rf = m1(m2(op)), and passes the wrapped rf to Retry(ctx, rf) without
\* middlewares, WfRuns times in a row. The counters are the `attempt`
\* variables captured by the closures WithBackoff and WithMaxRetryCount
\* return; they are created when the Middleware is applied.
WfRuns == 2

Wrappers ==
  {<<WithMaxRetryCount(n)>> : n \in 0..MaxRetry}
  \cup {<<WithBackoff(b)>> : b \in {Arifmetic(0, 1), Plain(PlainDur)}}
  \cup {<<WithMaxRetryCount(n), WithBackoff(Arifmetic(0, 1))>> : n \in 0..MaxRetry}

WfResults ==
  {Continue, Recover(Atom("e1")), RetryAfter(MaxOverride), Abort(Atom("e2")), Finish}

InitReuse ==
  /\ mode = "Retry"
  /\ middlewares = <<>>
  /\ progression = Plain(0)
  /\ retryCount = 0
  /\ CallIdle
  /\ inv = NoInv
  /\ fib = NoFib
  /\ OthersIdle
  /\ \E w \in Wrappers :
       wf = [pc |-> "start", wrappers |-> w,
             attempts |-> [i \in 1..Len(w) |-> 0],
             run |-> 1, calls |-> 0, res |-> Continue,
             rawLog |-> <<>>, outLog |-> <<>>, starts |-> <<>>, rets |-> <<>>]

\* variant of WfCounters: every Retry call starts the counters at 0
WfCounters_Fresh(w) == [i \in 1..Len(w.wrappers) |-> 0]

\* the counters a Retry call finds in the closures of the wrapped Func
WfCounters(w) == w.attempts

\* Retry(ctx, rf) is entered: `res := rf(ctx)`
Wf_Start ==
  /\ wf.pc = "start"
  /\ wf.calls < MaxCalls
  /\ wf' = [wf EXCEPT !.pc = "inop", !.calls = @ + 1,
                      !.attempts = WfCounters(wf),
                      !.starts = Append(@, Len(wf.rawLog))]
  /\ UNCHANGED <<config, callVars, others, inv, fib>>

\* the wrapped rf returns: the operation's result passes the closures from
\* the innermost to the outermost; Retry returns, calls again or sleeps
Wf_Result ==
  /\ wf.pc = "inop"
  /\ \E raw \in WfResults :
       LET out == ApplyChain(Len(wf.wrappers), wf.wrappers, wf.attempts, raw)
           logged == [wf EXCEPT !.rawLog = Append(@, raw),
                                !.outLog = Append(@, out.res),
                                !.attempts = out.attempts,
                                !.res = out.res]
       IN wf' = IF out.res.code # codeContinue
                  THEN [logged EXCEPT !.rets = Append(@, out.res.err),
                                      !.pc = IF wf.run < WfRuns THEN "start" ELSE "done",
                                      !.run = IF wf.run < WfRuns THEN @ + 1 ELSE @]
                ELSE IF NoSleep(RetrySleepTime(out.res))
                  THEN [logged EXCEPT !.pc = "call"]
                ELSE [logged EXCEPT !.pc = "sleep"]
  /\ UNCHANGED <<config, callVars, others, inv, fib>>

\* sleepTime <= 0: `res = rf(ctx)` without a timer
Wf_Call ==
  /\ wf.pc = "call"
  /\ wf.calls < MaxCalls
  /\ wf' = [wf EXCEPT !.pc = "inop", !.calls = @ + 1]
  /\ UNCHANGED <<config, callVars, others, inv, fib>>

\* `case <-timer.C`: `res = rf(ctx)`
Wf_Timer ==
  /\ wf.pc = "sleep"
  /\ wf.calls < MaxCalls
  /\ wf' = [wf EXCEPT !.pc = "inop", !.calls = @ + 1]
  /\ UNCHANGED <<config, callVars, others, inv, fib>>

NextReuse ==
  \/ Wf_Start
  \/ Wf_Result
  \/ Wf_Call
  \/ Wf_Timer

SpecReuse == InitReuse /\ [][NextReuse]_vars

\* the non-terminal results among the first k entries of a log
NonTerminalUpTo(log, k) == {j \in 1..k : log[j].code = codeContinue}
WfMaxIdx == {i \in 1..Len(wf.wrappers) : wf.wrappers[i].kind = "WithMaxRetryCount"}
WfBackoffIdx == {i \in 1..Len(wf.wrappers) : wf.wrappers[i].kind = "WithBackoff"}

\* C19: the counter of a wrapped Func lives as long as the Func and is never
\* reset: over all calls of all retry invocations that use it, at most n
\* non-terminal results pass WithMaxRetryCount(n), the strategy of
\* WithBackoff is evaluated at the number of non-terminal results the
\* wrapper has seen in its whole life, whichever invocation made the calls.
C19_WrappedFuncCounter ==
  /\ \A i \in WfMaxIdx :
       /\ Cardinality(NonTerminalUpTo(wf.outLog, Len(wf.outLog)))
            <= wf.wrappers[i].maxRetryCount
       /\ wf.attempts[i] = Cardinality(NonTerminalUpTo(wf.outLog, Len(wf.outLog)))
  /\ \A i \in WfBackoffIdx :
       /\ wf.attempts[i] = Cardinality(NonTerminalUpTo(wf.rawLog, Len(wf.rawLog)))
       /\ \A k \in 1..Len(wf.rawLog) :
            wf.rawLog[k].code = codeContinue /\ wf.rawLog[k].backoff = 0 =>
              \/ wf.outLog[k].code # codeContinue
              \/ wf.outLog[k].backoff =
                   BackoffAt(wf.wrappers[i].backoff,
                             Cardinality(NonTerminalUpTo(wf.rawLog, k - 1)))

C19_Witness ==
  /\ wf.pc = "done"
  /\ wf.wrappers = <<WithMaxRetryCount(2), WithBackoff(Arifmetic(0, 1))>>
  /\ wf.rawLog = <<Continue, Continue, Continue, Continue>>
  /\ wf.starts = <<0, 3>>
  /\ wf.outLog[2].backoff = 1
  /\ wf.rets = <<ErrRetryCountExceeded, ErrRetryCountExceeded>>

\* ------------------------------------------------- the Fibonacci strategy
\* The three forms of the Fibonacci strategy, each evaluated once at an
\* attempt index.
FibForms == {"Fibonacci", "FibonacciProgression", "FibonacciSleeper"}

\* FibonacciProgression(s).Duration(attempt)
FibonacciProgressionDuration(s, att) == s * fibonacciIterative(att + 1)

\* FibonacciSleeper(s).SleepTime(repeatCount)
FibonacciSleeperSleepTime(s, repeatCount) == s * fibonacciIterative(repeatCount + 1)

InitFib ==
  /\ mode = "Retry"
  /\ middlewares = <<>>
  /\ progression = Plain(0)
  /\ retryCount = 0
  /\ CallIdle
  /\ inv = NoInv
  /\ wf = NoWf
  /\ OthersIdle
  /\ \E f \in FibForms, base \in 1..MaxBase, a \in 0..MaxAttempt :
       fib = [pc |-> "ready", form |-> f, base |-> base, attempt |-> a, out |-> 0]

\* the strategy is asked for the duration of fib.attempt
Fib_Call ==
  /\ fib.pc = "ready"
  /\ fib' = [fib EXCEPT
       !.pc = "done",
       !.out = CASE fib.form = "Fibonacci" -> BackoffAt(Fibonacci(fib.base), fib.attempt)
                 [] fib.form = "FibonacciProgression" ->
                      FibonacciProgressionDuration(fib.base, fib.attempt)
                 [] fib.form = "FibonacciSleeper" ->
                      FibonacciSleeperSleepTime(fib.base, fib.attempt)]
  /\ UNCHANGED <<config, callVars, others, inv, wf>>

NextFib == Fib_Call

SpecFib == InitFib /\ [][NextFib]_vars

\* the multipliers 1, 1, 2, 3, 5, 8, 13, 21, 34, 55 of attempts 0..9, and on
FibMultipliers == <<1, 1, 2, 3, 5, 8, 13, 21, 34, 55, 89, 144>>

\* C20: Fibonacci(base), FibonacciProgression(base).Duration and
\* FibonacciSleeper(base).SleepTime return base * fib(attempt + 1) with
\* fib(1) = fib(2) = 1: the multipliers of attempts 0..9 are
\* 1, 1, 2, 3, 5, 8, 13, 21, 34, 55.
C20_FibonacciValues ==
  fib.pc = "done" => fib.out = fib.base * FibMultipliers[fib.attempt + 1]

C20_Witness ==
  /\ fib.pc = "done"
  /\ fib.form = "FibonacciSleeper"
  /\ fib.base = 3
  /\ fib.attempt = 9
  /\ fib.out = 165

\* ------------------------------------------- the Plain and Arifmetic values
\* One Backoff value built by Plain or Arifmetic and called BkCalls times,
\* at attempt indexes in any order.
BkCalls == 2

BkValues ==
  {Plain(d) : d \in 0..PlainDur}
  \cup {Arifmetic(i, d) : i \in 0..MaxDelta, d \in 0..MaxDelta}

InitBackoff ==
  /\ mode = "Retry"
  /\ middlewares = <<>>
  /\ progression = Plain(0)
  /\ retryCount = 0
  /\ CallIdle
  /\ LaterIdle
  /\ inv = NoInv
  /\ wf = NoWf
  /\ fib = NoFib
  /\ http = NoHttp
  /\ rep = NoRep
  /\ req = NoReq
  /\ \E b \in BkValues : bk = [pc |-> "ready", backoff |-> b, asked |-> <<>>, got |-> <<>>]

\* the Backoff is called with an attempt index
Bk_Call ==
  /\ bk.pc = "ready"
  /\ \E a \in 0..MaxAttempt :
       bk' = [bk EXCEPT !.asked = Append(@, a),
                        !.got = Append(@, BackoffAt(bk.backoff, a)),
                        !.pc = IF Len(bk.asked) + 1 = BkCalls THEN "done" ELSE "ready"]
  /\ UNCHANGED <<config, callVars, inv, wf, fib, http, rep, req, later>>

NextBackoff == Bk_Call

SpecBackoff == InitBackoff /\ [][NextBackoff]_vars

\* C21: Plain(d) answers d at every attempt index; Arifmetic(initial, delta)
\* answers initial at index 0 and grows by delta per index; the answer
\* depends on the index alone, not on the calls made before.
C21_PlainArifmetic ==
  \A k \in 1..Len(bk.got) :
    /\ (bk.backoff.kind = "Plain" => bk.got[k] = bk.backoff.a)
    /\ (bk.backoff.kind = "Arifmetic" =>
          /\ (bk.asked[k] = 0 => bk.got[k] = bk.backoff.a)
          /\ bk.got[k] - bk.backoff.a = bk.backoff.b * bk.asked[k])
    /\ \A j \in 1..Len(bk.got) :
         /\ (bk.asked[j] = bk.asked[k] => bk.got[j] = bk.got[k])
         /\ (bk.backoff.kind = "Arifmetic" =>
               bk.got[k] - bk.got[j] = bk.backoff.b * (bk.asked[k] - bk.asked[j]))

C21_Witness ==
  /\ bk.pc = "done"
  /\ bk.backoff = Arifmetic(1, 2)
  /\ bk.asked = <<3, 0>>
  /\ bk.got = <<7, 1>>

\* ------------------------------------------------- the HTTP transport
\* An *http.Response, by its StatusCode, or the nil response.
NilResp == [nil |-> TRUE, status |-> 0]
Resp(s) == [nil |-> FALSE, status |-> s]

StatusTooManyRequests == 429
StatusInternalServerError == 500
StatusNotImplemented == 501

Statuses == {0, 100, 200, 301, 404, 428, 429, 430, 499, 500, 501, 502, 999}

\* Errors of the inner transport. A *url.Error carries its Op in `name` and
\* its Err in `errs`; a wrapping error (fmt.Errorf("msg: %w", err)) carries
\* its own message and the wrapped error; a
\* *tls.CertificateVerificationError is an error of its own type.
UrlError(e) == [kind |-> "url", name |-> "Get", errs |-> <<e>>]
Wrap(msg, e) == [kind |-> "wrap", name |-> msg, errs |-> <<e>>]
CertificateVerificationError ==
  [kind |-> "cert", name |-> "tls: failed to verify certificate", errs |-> <<>>]

\* err.Error(), as the sequence of the message's parts
RECURSIVE ErrorText(_)
ErrorText(e) ==
  IF e.kind \in {"url", "wrap"} THEN <<e.name>> \o ErrorText(e.errs[1])
  ELSE <<e.name>>

\* regexp `stopped after \d+ redirects\z`: the match ends the text
redirectsErrorRe(text) == Last(text) = "stopped after 10 redirects"
\* the unanchored regexps match anywhere in the text
missingProtocolScheme(text) == \E i \in 1..Len(text) : text[i] = "missing protocol scheme"
schemeErrorRe(text) == \E i \in 1..Len(text) : text[i] = "unsupported protocol scheme"
invalidHeaderErrorRe(text) == \E i \in 1..Len(text) : text[i] = "invalid header"

\* `_, ok := err.(*tls.CertificateVerificationError)`
isCertError(e) == e.kind = "cert"

HttpErrs ==
  {UrlError(Atom("stopped after 10 redirects")),
   UrlError(Atom("missing protocol scheme")),
   UrlError(Atom("unsupported protocol scheme")),
   UrlError(Atom("invalid header")),
   UrlError(CertificateVerificationError),
   UrlError(Wrap("handshake", CertificateVerificationError)),
   UrlError(Wrap("stopped after 10 redirects", Atom("EOF"))),
   UrlError(Atom("connection refused")),
   Atom("stopped after 10 redirects"),
   Wrap("do", UrlError(Atom("invalid header"))),
   CertificateVerificationError}

\* variant of DefaultHandleResponse: 501 is retried like every other 5xx
DefaultHandleResponse_Retries501(resp, err) ==
  IF err # Nil
    THEN IF /\ err.kind = "url"
            /\ \/ redirectsErrorRe(ErrorText(err))
               \/ missingProtocolScheme(ErrorText(err))
               \/ schemeErrorRe(ErrorText(err))
               \/ invalidHeaderErrorRe(ErrorText(err))
               \/ isCertError(err.errs[1])
           THEN Abort(err)
           ELSE Recover(err)
  ELSE IF resp.status = StatusTooManyRequests THEN Continue
  ELSE IF resp.status = 0 \/ resp.status >= StatusInternalServerError THEN Continue
  ELSE Finish

\* variant of DefaultHandleResponse: the *url.Error is looked for in the
\* whole chain of the error, and its cause in the whole chain of its Err
DefaultHandleResponse_Unwraps(resp, err) ==
  LET v == IF err.kind = "wrap" THEN err.errs[1] ELSE err
      cause == IF v.kind = "url" /\ v.errs[1].kind = "wrap" THEN v.errs[1].errs[1]
               ELSE IF v.kind = "url" THEN v.errs[1] ELSE v
  IN IF err # Nil
       THEN IF /\ v.kind = "url"
               /\ \/ redirectsErrorRe(ErrorText(v))
                  \/ missingProtocolScheme(ErrorText(v))
                  \/ schemeErrorRe(ErrorText(v))
                  \/ invalidHeaderErrorRe(ErrorText(v))
                  \/ isCertError(cause)
              THEN Abort(err)
              ELSE Recover(err)
     ELSE IF resp.status = StatusTooManyRequests THEN Continue
     ELSE IF resp.status = 0 \/ (/\ resp.status >= StatusInternalServerError
                                 /\ resp.status # StatusNotImplemented) THEN Continue
     ELSE Finish

\* DefaultHandleResponse(ctx, resp, err)
DefaultHandleResponse(resp, err) ==
  IF err # Nil
    THEN IF /\ err.kind = "url"
            /\ \/ redirectsErrorRe(ErrorText(err))
               \/ missingProtocolScheme(ErrorText(err))
               \/ schemeErrorRe(ErrorText(err))
               \/ invalidHeaderErrorRe(ErrorText(err))
               \/ isCertError(err.errs[1])
           THEN Abort(err)
           ELSE Recover(err)
  ELSE IF resp.status = StatusTooManyRequests THEN Continue
  ELSE IF resp.status = 0 \/ (/\ resp.status >= StatusInternalServerError
                              /\ resp.status # StatusNotImplemented) THEN Continue
  ELSE Finish


\* what c.transport.RoundTrip(req) hands back: a response or an error
TransportOutcomes(handler) ==
  IF handler = "default"
    THEN {[resp |-> Resp(st), err |-> Nil] : st \in Statuses}
         \cup {[resp |-> NilResp, err |-> e] : e \in HttpErrs}
  ELSE {[resp |-> Resp(200), err |-> Nil], [resp |-> Resp(StatusInternalServerError), err |-> Nil],
        [resp |-> NilResp, err |-> Atom("connection refused")]}

\* the Results a caller-supplied handleResponse may give
CustomResults == {Continue, Finish, Abort(Atom("e2")), Abort(Nil)}

\* rf(ctx, resp, err): DefaultHandleResponse unless c.handleResponse is set
HandlerResults(handler, resp, err) ==
  IF handler = "default" THEN {DefaultHandleResponse(resp, err)} ELSE CustomResults

\* variant of RoundTripReturn: the response of the last attempt is handed
\* back together with the retry error
RoundTripReturn_KeepsResp(retryErr, resp) == [resp |-> resp, err |-> retryErr]

\* `if retryErr != nil { return nil, retryErr }; return resp, nil`
RoundTripReturn(retryErr, resp) ==
  IF retryErr # Nil THEN [resp |-> NilResp, err |-> retryErr]
  ELSE [resp |-> resp, err |-> Nil]

InitHttp ==
  /\ mode = "PolicyRetryContext"
  /\ middlewares = <<>>
  /\ progression \in {Plain(0), Plain(PlainDur)}
  /\ retryCount \in 0..MaxRetry
  /\ CallIdle
  /\ LaterIdle
  /\ inv = NoInv
  /\ wf = NoWf
  /\ fib = NoFib
  /\ bk = NoBk
  /\ rep = NoRep
  /\ req = NoReq
  /\ \E h \in {"default", "custom"} :
       http = [pc |-> "start", handler |-> h, ctx |-> Nil, attempt |-> 0,
               entered |-> FALSE, result |-> Continue, resp |-> NilResp, err |-> Nil,
               rtLog |-> <<>>, hLog |-> <<>>, events |-> <<>>,
               out |-> [resp |-> NilResp, err |-> Nil]]

\* RoundTrip calls c.policy.RetryContext, which calls the closure at once
Http_Start ==
  /\ http.pc = "start"
  /\ http' = [http EXCEPT !.pc = "inop"]
  /\ UNCHANGED <<config, callVars, inv, wf, fib, bk, rep, req, later>>

\* one attempt: the closure runs the inner RoundTrip and the handler, and
\* the retry loop returns, goes on at once, sleeps or gives up
Http_Attempt ==
  /\ http.pc = "inop"
  /\ \E o \in TransportOutcomes(http.handler) :
     \E raw \in HandlerResults(http.handler, o.resp, o.err) :
       LET next == IF http.entered THEN http.attempt + 1 ELSE 0
           me == [http EXCEPT !.resp = o.resp, !.err = o.err,
                              !.rtLog = Append(@, o),
                              !.hLog = Append(@, [resp |-> o.resp, err |-> o.err, result |-> raw]),
                              !.events = @ \o <<"RoundTrip", "handleResponse">>]
           sleepTime == PolicySleepTime(progression, next, raw)
       IN http' =
            IF raw.code # codeContinue
              THEN [me EXCEPT !.result = raw, !.pc = "done",
                              !.out = RoundTripReturn(raw.err, o.resp)]
            ELSE IF next < retryCount
              THEN [me EXCEPT !.result = raw, !.attempt = next, !.entered = TRUE,
                              !.pc = IF NoSleep(sleepTime) THEN "inop" ELSE "select"]
            ELSE [me EXCEPT !.result = retryCountExceeded(raw.err), !.pc = "done",
                            !.out = RoundTripReturn(retryCountExceeded(raw.err).err, o.resp)]
  /\ UNCHANGED <<config, callVars, inv, wf, fib, bk, rep, req, later>>

\* `case <-timer.C`
Http_Timer ==
  /\ http.pc = "select"
  /\ http' = [http EXCEPT !.pc = "inop"]
  /\ UNCHANGED <<config, callVars, inv, wf, fib, bk, rep, req, later>>

\* `case <-ctx.Done()`: the retry ends with the cause of the cancellation
Http_CtxDone ==
  /\ http.pc = "select"
  /\ http.ctx # Nil
  /\ http' = [http EXCEPT
       !.result = Abort(CancelErr(http.ctx, http.result.err)),
       !.pc = "done",
       !.out = RoundTripReturn(CancelErr(http.ctx, http.result.err), http.resp)]
  /\ UNCHANGED <<config, callVars, inv, wf, fib, bk, rep, req, later>>

\* req.Context() is cancelled while the retry sleeps
Http_Cancel ==
  /\ http.pc = "select"
  /\ http.ctx = Nil
  /\ http' = [http EXCEPT !.ctx = Atom("context canceled")]
  /\ UNCHANGED <<config, callVars, inv, wf, fib, bk, rep, req, later>>

NextHttp ==
  \/ Http_Start
  \/ Http_Attempt
  \/ Http_Timer
  \/ Http_CtxDone
  \/ Http_Cancel

SpecHttp == InitHttp /\ [][NextHttp]_vars

\* the calls DefaultHandleResponse has answered so far
DefaultCalls == IF http.handler = "default" THEN 1..Len(http.hLog) ELSE {}

\* the statuses of Statuses that are 429, 0, or 5xx and above except 501,
\* and the others
RetryStatuses == {0, 429, 500, 502, 999}
FinishStatuses == {100, 200, 301, 404, 428, 430, 499, 501}

\* C22: with a nil error DefaultHandleResponse looks at the status code
\* alone: Continue() for 429, 0 and everything from 500 up except 501,
\* Finish() for every other status.
C22_StatusClassification ==
  \A k \in DefaultCalls :
    http.hLog[k].err = Nil =>
      /\ http.hLog[k].resp.status \in RetryStatuses \cup FinishStatuses
      /\ (http.hLog[k].resp.status \in RetryStatuses => http.hLog[k].result = Continue)
      /\ (http.hLog[k].resp.status \in FinishStatuses => http.hLog[k].result = Finish)

C22_Witness ==
  /\ http.handler = "default"
  /\ Len(http.hLog) = 3
  /\ http.hLog[1].resp = Resp(429)
  /\ http.hLog[1].result = Continue
  /\ http.hLog[2].resp = Resp(0)
  /\ http.hLog[3].resp = Resp(501)
  /\ http.hLog[3].result = Finish

\* the errors of HttpErrs that are a *url.Error whose text matches one of
\* the four patterns or whose Err is a certificate verification error
AbortingErrs ==
  {UrlError(Atom("stopped after 10 redirects")),
   UrlError(Atom("missing protocol scheme")),
   UrlError(Atom("unsupported protocol scheme")),
   UrlError(Atom("invalid header")),
   UrlError(CertificateVerificationError)}

\* C23: with a non-nil error DefaultHandleResponse answers Abort(err) for a
\* *url.Error that matches the redirect, missing-scheme, unsupported-scheme
\* or invalid-header pattern or carries a certificate verification error,
\* and Recover(err) for every other error; never Finish() or Continue(),
\* and the error carried is err itself.
C23_ErrorClassification ==
  \A k \in DefaultCalls :
    http.hLog[k].err # Nil =>
      /\ http.hLog[k].result.err = http.hLog[k].err
      /\ http.hLog[k].result # Finish
      /\ http.hLog[k].result.code = codeContinue =>
           /\ http.hLog[k].result = Recover(http.hLog[k].err)
           /\ http.hLog[k].err \notin AbortingErrs
      /\ http.hLog[k].result.code # codeContinue =>
           /\ http.hLog[k].result = Abort(http.hLog[k].err)
           /\ http.hLog[k].err \in AbortingErrs

C23_Witness ==
  /\ http.handler = "default"
  /\ Len(http.hLog) = 3
  /\ http.hLog[1].err = UrlError(Wrap("stopped after 10 redirects", Atom("EOF")))
  /\ http.hLog[1].result.code = codeContinue
  /\ http.hLog[2].err = Wrap("do", UrlError(Atom("invalid header")))
  /\ http.hLog[3].err = UrlError(CertificateVerificationError)
  /\ http.hLog[3].result = Abort(UrlError(CertificateVerificationError))

\* C24: RoundTrip hands back (nil, the retry's error) when the retry ends
\* with an error, dropping the last response, and (the last attempt's
\* response, nil) when it ends with nil; never a response and an error.
\* Every attempt is one inner RoundTrip followed by one handler call.
C24_RoundTripReturn ==
  /\ Len(http.events) = 2 * Len(http.rtLog)
  /\ Len(http.hLog) = Len(http.rtLog)
  /\ \A k \in 1..Len(http.rtLog) :
       /\ http.events[2 * k - 1] = "RoundTrip"
       /\ http.events[2 * k] = "handleResponse"
       /\ http.hLog[k].resp = http.rtLog[k].resp
       /\ http.hLog[k].err = http.rtLog[k].err
  /\ http.pc = "done" =>
       /\ ~(http.out.resp # NilResp /\ http.out.err # Nil)
       /\ (http.result.err # Nil =>
             http.out = [resp |-> NilResp, err |-> http.result.err])
       /\ (http.result.err = Nil =>
             http.out = [resp |-> Last(http.rtLog).resp, err |-> Nil])

C24_Witness ==
  /\ http.pc = "done"
  /\ http.handler = "default"
  /\ retryCount = 2
  /\ Len(http.rtLog) = 3
  /\ Last(http.rtLog).resp = Resp(StatusInternalServerError)
  /\ http.out = [resp |-> NilResp, err |-> ErrRetryCountExceeded]

\* ------------------------------------------- the Sleeper-based Repeater
\* NewRepeater(n, sleeper) and one Repeat or RepeatContext on it.
StandardSleeper(d) == [kind |-> "Standard", d |-> d, pauses |-> <<>>]
PauseSleeper(p) == [kind |-> "Pause", d |-> 0, pauses |-> p]
FibonacciSleeper(d) == [kind |-> "Fibonacci", d |-> d, pauses |-> <<>>]

\* r.sleeper.SleepTime(repeatCount)
SleepTime(sl, repeatCount) ==
  CASE sl.kind = "Standard" -> sl.d
    [] sl.kind = "Pause" ->
         IF repeatCount > Len(sl.pauses) - 1 THEN 0 ELSE sl.pauses[repeatCount + 1]
    [] sl.kind = "Fibonacci" -> FibonacciSleeperSleepTime(sl.d, repeatCount)

Sleepers ==
  {StandardSleeper(0), StandardSleeper(PlainDur), PauseSleeper(<<PlainDur>>),
   FibonacciSleeper(1)}

\* variant of Succeeds: repeatFunc reports `finished`, as the later
\* Repeater's RepeatFunc does
Succeeds_Finished(needRepeat) == needRepeat

\* `if !needRepeat { return true }`
Succeeds(needRepeat) == ~needRepeat

\* variant of LoopGoesOn: `i <= r.repeatTimes`
LoopGoesOn_Inclusive(i, repeatTimes) == i <= repeatTimes

\* `for i := 0; i < r.repeatTimes; i++` / `for i := range r.repeatTimes`
LoopGoesOn(i, repeatTimes) == i < repeatTimes

InitRep ==
  /\ mode = "Retry"
  /\ middlewares = <<>>
  /\ progression = Plain(0)
  /\ retryCount = 0
  /\ CallIdle
  /\ LaterIdle
  /\ inv = NoInv
  /\ wf = NoWf
  /\ fib = NoFib
  /\ bk = NoBk
  /\ http = NoHttp
  /\ req = NoReq
  /\ \E m \in {"Repeat", "RepeatContext"}, n \in 0..MaxRetry, sl \in Sleepers :
       rep = [pc |-> "start", method |-> m, repeatTimes |-> n, sleeper |-> sl,
              i |-> 0, ctxDone |-> FALSE, timerFired |-> FALSE, wake |-> "none",
              answers |-> <<>>, ret |-> FALSE, ended |-> "none"]

\* `needRepeat := repeatFunc()`, the first call
Rep_Start ==
  /\ rep.pc = "start"
  /\ rep' = [rep EXCEPT !.pc = "infunc"]
  /\ UNCHANGED <<config, callVars, inv, wf, fib, bk, http, req, later>>

\* repeatFunc returns: success, the next round of the loop, or the count
\* is exceeded
Rep_Answer ==
  /\ rep.pc = "infunc"
  /\ \E needRepeat \in BOOLEAN :
       LET me == [rep EXCEPT !.answers = Append(@, needRepeat)]
           sleepTime == SleepTime(rep.sleeper, rep.i)
       IN rep' =
            IF Succeeds(needRepeat)
              THEN [me EXCEPT !.pc = "done", !.ret = TRUE, !.ended = "success"]
            ELSE IF LoopGoesOn(rep.i, rep.repeatTimes)
              THEN IF rep.method = "Repeat"
                     THEN [me EXCEPT !.i = @ + 1, !.pc = "after"]
                   ELSE IF sleepTime <= 0
                     THEN [me EXCEPT !.i = @ + 1]
                   ELSE [me EXCEPT !.i = @ + 1, !.pc = "select",
                                   !.timerFired = FALSE, !.wake = "none"]
            ELSE [me EXCEPT !.pc = "done", !.ret = FALSE, !.ended = "exceeded"]
  /\ UNCHANGED <<config, callVars, inv, wf, fib, bk, http, req, later>>

\* Repeat: `<-time.After(r.sleeper.SleepTime(i))` is over
Rep_After ==
  /\ rep.pc = "after"
  /\ rep' = [rep EXCEPT !.pc = "infunc"]
  /\ UNCHANGED <<config, callVars, inv, wf, fib, bk, http, req, later>>

\* the timer of the current wait expires; a parked select is woken by the
\* first of its cases that becomes ready
Rep_TimerExpire ==
  /\ rep.pc \in {"select", "parked"}
  /\ ~rep.timerFired
  /\ rep' = [rep EXCEPT !.timerFired = TRUE,
                        !.wake = IF rep.pc = "parked" /\ rep.wake = "none"
                                   THEN "timer" ELSE @]
  /\ UNCHANGED <<config, callVars, inv, wf, fib, bk, http, req, later>>

\* the caller's context is done (RepeatContext only; its own cancel runs
\* on return)
Rep_Cancel ==
  /\ rep.method = "RepeatContext"
  /\ rep.pc \in {"infunc", "select", "parked"}
  /\ ~rep.ctxDone
  /\ rep' = [rep EXCEPT !.ctxDone = TRUE,
                        !.wake = IF rep.pc = "parked" /\ rep.wake = "none"
                                   THEN "ctx" ELSE @]
  /\ UNCHANGED <<config, callVars, inv, wf, fib, bk, http, req, later>>

\* select finds no case ready and parks
Rep_Park ==
  /\ rep.pc = "select"
  /\ ~rep.ctxDone
  /\ ~rep.timerFired
  /\ rep' = [rep EXCEPT !.pc = "parked"]
  /\ UNCHANGED <<config, callVars, inv, wf, fib, bk, http, req, later>>

\* `case <-ctx.Done()`: timer.Stop(); return false
Rep_CtxBranch ==
  /\ \/ rep.pc = "select" /\ rep.ctxDone
     \/ rep.pc = "parked" /\ rep.wake = "ctx"
  /\ rep' = [rep EXCEPT !.pc = "done", !.ret = FALSE, !.ended = "ctx"]
  /\ UNCHANGED <<config, callVars, inv, wf, fib, bk, http, req, later>>

\* `case <-timer.C`: repeatFunc is called again
Rep_TimerBranch ==
  /\ \/ rep.pc = "select" /\ rep.timerFired
     \/ rep.pc = "parked" /\ rep.wake = "timer"
  /\ rep' = [rep EXCEPT !.pc = "infunc"]
  /\ UNCHANGED <<config, callVars, inv, wf, fib, bk, http, req, later>>

NextRep ==
  \/ Rep_Start
  \/ Rep_Answer
  \/ Rep_After
  \/ Rep_TimerExpire
  \/ Rep_Cancel
  \/ Rep_Park
  \/ Rep_CtxBranch
  \/ Rep_TimerBranch

SpecRep == InitRep /\ [][NextRep]_vars

\* one of the calls of repeatFunc returned b
Answered(b) == \E k \in 1..Len(rep.answers) : rep.answers[k] = b

C26_FalseOnExceededOrDone ==
  [][/\ (rep'.ended = "exceeded" =>
           /\ rep'.ret = FALSE
           /\ Len(rep'.answers) = rep.repeatTimes + 1
           /\ \A k \in 1..Len(rep'.answers) : rep'.answers[k])
     /\ (Len(rep'.answers) = rep.repeatTimes + 1 /\ Last(rep'.answers) =>
           rep'.pc = "done" /\ rep'.ret = FALSE)
     /\ (rep.pc = "parked" /\ rep.wake = "ctx" =>
           /\ rep'.answers = rep.answers
           /\ \/ rep'.pc = "parked" /\ rep'.wake = "ctx"
              \/ rep'.pc = "done" /\ rep'.ret = FALSE)
     /\ (rep'.ended = "ctx" =>
           /\ rep.method = "RepeatContext"
           /\ rep'.ret = FALSE
           /\ rep'.pc = "done"
           /\ rep'.answers = rep.answers
           /\ Len(rep'.answers) <= rep.repeatTimes)]_vars

C26_Witness ==
  /\ rep.ended = "ctx"
  /\ rep.repeatTimes = 2
  /\ rep.answers = <<TRUE, TRUE>>
  /\ ~rep.timerFired
  /\ rep.ret = FALSE

\* ------------------------------------------- the durable-request processor
\* One requests.Policy.Retry: the storage calls, each of which may fail, and
\* the retry of the caller's operation through p.policy.RetryContext.
StorageErr == Atom("storage unavailable")

\* fmt.Errorf(opName+": %w", err)
opError(opName, err) == Wrap(opName, err)

\* retryOptions.maxAttempts, a *uint64. No exported Option sets it; a set
\* value is drawn as well, since Retry and retry read it.
NoMaxAttempts == [set |-> FALSE, value |-> 0]
MaxAttempts(n) == [set |-> TRUE, value |-> n]

\* requests.retryCountExceeded(retryOptions, attemptNumber)
attemptsExceeded(maxAttempts, attemptNumber) ==
  IF ~maxAttempts.set THEN FALSE ELSE attemptNumber > maxAttempts.value

ReqResults ==
  {Continue, Recover(Atom("e1")), RetryAfter(MaxOverride), Abort(Atom("e2")), Finish}

\* variant of ClosureResult: a failed InsertRequestAttempt aborts the retry
ClosureResult_AbortsOnInsertError(result, insertErr, attemptNumber, maxAttempts) ==
  IF insertErr # Nil THEN Abort(opError("storage.InsertRequestAttempt", insertErr))
  ELSE IF attemptsExceeded(maxAttempts, attemptNumber) THEN Abort(ErrRetryCountExceeded)
  ELSE result

\* what the closure of p.retry returns after InsertRequestAttempt
ClosureResult(result, insertErr, attemptNumber, maxAttempts) ==
  IF insertErr # Nil THEN result
  ELSE IF attemptsExceeded(maxAttempts, attemptNumber) THEN Abort(ErrRetryCountExceeded)
  ELSE result

\* variant of Disposition: the request is marked completed whenever the
\* last Result was reached without a storage error
Disposition_AlwaysCompleted(retryErr) == [call |-> "MarkRequestAsCompleted", err |-> Nil]

\* `switch retryErr { case nil: markRequestAsCompleted; default: markRequestAsAborted }`
Disposition(retryErr) ==
  IF retryErr = Nil THEN [call |-> "MarkRequestAsCompleted", err |-> Nil]
  ELSE [call |-> "MarkRequestAsAborted", err |-> retryErr]

\* variant of MarkReturn: the error recorded in the aborted request is also
\* returned to the caller
MarkReturn_ReturnsRetryErr(mark, storageErr) ==
  IF storageErr # Nil THEN opError("storage." \o mark.call, storageErr)
  ELSE mark.err

\* what markRequestAsCompleted / markRequestAsAborted return
MarkReturn(mark, storageErr) ==
  IF storageErr # Nil THEN opError("storage." \o mark.call, storageErr)
  ELSE Nil

InitReq ==
  /\ mode = "PolicyRetryContext"
  /\ middlewares = <<>>
  /\ progression \in {Plain(0), Plain(PlainDur)}
  /\ retryCount \in 0..MaxRetry
  /\ CallIdle
  /\ LaterIdle
  /\ inv = NoInv
  /\ wf = NoWf
  /\ fib = NoFib
  /\ bk = NoBk
  /\ http = NoHttp
  /\ rep = NoRep
  /\ \E ma \in {NoMaxAttempts, MaxAttempts(0), MaxAttempts(MaxStored + 1)},
        st \in 0..MaxStored :
       req = [pc |-> "start", maxAttempts |-> ma, stored |-> st, ctx |-> Nil,
              entered |-> FALSE, attempt |-> 0, result |-> Continue,
              opResult |-> Continue, events |-> <<>>, opLog |-> <<>>,
              handed |-> <<>>, loopRan |-> FALSE,
              retryErr |-> Nil, mark |-> [call |-> "none", err |-> Nil],
              ret |-> Nil]


ReqFrame == <<config, callVars, inv, wf, fib, bk, http, rep, later>>

\* a storage call and its outcome, as the storage sees it
StorageCall(call, err, ok) == [call |-> call, err |-> err, ok |-> ok]

\* p.lastAttemptNumber, then the check against maxAttempts: the storage
\* fails (Retry returns the wrapped error), the count is exceeded (the
\* request is to be marked aborted) or p.retry is entered
Req_LastAttemptNumber ==
  /\ req.pc = "start"
  /\ \E serr \in {Nil, StorageErr} :
       LET me == [req EXCEPT !.events =
                    Append(@, StorageCall("LastRequestAttemptNumber", Nil, serr = Nil))]
       IN req' =
            IF serr # Nil
              THEN [me EXCEPT !.pc = "done",
                              !.ret = opError("storage.LastAttemptNumber", serr)]
            ELSE IF attemptsExceeded(req.maxAttempts, req.stored)
              THEN [me EXCEPT !.pc = "mark",
                              !.mark = [call |-> "MarkRequestAsAborted", err |-> ErrRetryCountExceeded]]
            ELSE [me EXCEPT !.pc = "inop", !.loopRan = TRUE]
  /\ UNCHANGED ReqFrame

\* `result := rfctx(ctx)`: the caller's operation returns
Req_Operation ==
  /\ req.pc = "inop"
  /\ \E raw \in ReqResults :
       req' = [req EXCEPT !.pc = "insert", !.opResult = raw,
                          !.opLog = Append(@, raw),
                          !.events = Append(@, StorageCall("rfctx", raw.err, TRUE))]
  /\ UNCHANGED ReqFrame

\* p.storage.InsertRequestAttempt(ctx, attempt), the rest of the closure,
\* and the step of RetryContext on the Result the closure returns
Req_Insert ==
  /\ req.pc = "insert"
  /\ \E serr \in {Nil, StorageErr} :
       LET attemptNumber == IF serr = Nil THEN req.stored + 1 ELSE 0
           raw == ClosureResult(req.opResult, serr, attemptNumber, req.maxAttempts)
           next == IF req.entered THEN req.attempt + 1 ELSE 0
           sleepTime == PolicySleepTime(progression, next, raw)
           me == [req EXCEPT
                    !.stored = IF serr = Nil THEN @ + 1 ELSE @,
                    !.handed = Append(@, raw),
                    !.events = Append(@, StorageCall("InsertRequestAttempt",
                                                     req.opResult.err, serr = Nil))]
       IN req' =
            IF raw.code # codeContinue
              THEN [me EXCEPT !.result = raw, !.pc = "mark", !.retryErr = raw.err,
                              !.mark = Disposition(raw.err)]
            ELSE IF next < retryCount
              THEN [me EXCEPT !.result = raw, !.attempt = next, !.entered = TRUE,
                              !.pc = IF NoSleep(sleepTime) THEN "inop" ELSE "select"]
            ELSE [me EXCEPT !.result = retryCountExceeded(raw.err), !.pc = "mark",
                            !.retryErr = retryCountExceeded(raw.err).err,
                            !.mark = Disposition(retryCountExceeded(raw.err).err)]
  /\ UNCHANGED ReqFrame

\* `case <-timer.C` of the retry
Req_Timer ==
  /\ req.pc = "select"
  /\ req' = [req EXCEPT !.pc = "inop"]
  /\ UNCHANGED ReqFrame

\* `case <-ctx.Done()` of the retry
Req_CtxDone ==
  /\ req.pc = "select"
  /\ req.ctx # Nil
  /\ req' = [req EXCEPT
       !.result = Abort(CancelErr(req.ctx, req.result.err)),
       !.retryErr = CancelErr(req.ctx, req.result.err),
       !.mark = Disposition(CancelErr(req.ctx, req.result.err)),
       !.pc = "mark"]
  /\ UNCHANGED ReqFrame

\* the context of the Retry is cancelled while the retry sleeps
Req_Cancel ==
  /\ req.pc = "select"
  /\ req.ctx = Nil
  /\ req' = [req EXCEPT !.ctx = Atom("context canceled")]
  /\ UNCHANGED ReqFrame

\* p.markRequestAsCompleted / p.markRequestAsAborted: the storage call and
\* the value Retry returns
Req_Mark ==
  /\ req.pc = "mark"
  /\ \E serr \in {Nil, StorageErr} :
       req' = [req EXCEPT
         !.pc = "done",
         !.events = Append(@, StorageCall(req.mark.call, req.mark.err, serr = Nil)),
         !.ret = MarkReturn(req.mark, serr)]
  /\ UNCHANGED ReqFrame

NextReq ==
  \/ Req_LastAttemptNumber
  \/ Req_Operation
  \/ Req_Insert
  \/ Req_Timer
  \/ Req_CtxDone
  \/ Req_Cancel
  \/ Req_Mark

SpecReq == InitReq /\ [][NextReq]_vars

\* the storage calls made so far that are final dispositions / inserts
Marks ==
  {k \in 1..Len(req.events) :
     req.events[k].call \in {"MarkRequestAsCompleted", "MarkRequestAsAborted"}}
Inserts == {k \in 1..Len(req.events) : req.events[k].call = "InsertRequestAttempt"}
Operations == {k \in 1..Len(req.events) : req.events[k].call = "rfctx"}

\* C28: when LastRequestAttemptNumber succeeds, one Retry makes exactly one
\* final-disposition call, after the last attempt of the operation:
\* MarkRequestAsCompleted if and only if the retry ended with a nil error,
\* otherwise MarkRequestAsAborted carrying the retry's error; never both.
C28_OneDisposition ==
  /\ Cardinality(Marks) <= 1
  /\ \A k \in Marks :
       /\ k = Len(req.events)
       /\ req.pc = "done"
       /\ req.events[1] = StorageCall("LastRequestAttemptNumber", Nil, TRUE)
       /\ (req.events[k].call = "MarkRequestAsCompleted" <=>
             req.loopRan /\ req.retryErr = Nil)
       /\ (req.events[k].call = "MarkRequestAsAborted" /\ req.loopRan =>
             req.retryErr # Nil /\ req.events[k].err = req.retryErr)
       /\ (~req.loopRan => req.events[k].err = ErrRetryCountExceeded)
  /\ (req.pc = "done" /\ req.events[1].ok => Cardinality(Marks) = 1)

C28_Witness ==
  /\ req.pc = "done"
  /\ req.loopRan
  /\ Cardinality(Operations) = 2
  /\ req.retryErr = Joined(ErrRetryCountExceeded, Atom("e1"))
  /\ Last(req.events) =
       StorageCall("MarkRequestAsAborted", Joined(ErrRetryCountExceeded, Atom("e1")), TRUE)

\* C29: every call of the caller's operation is followed by exactly one
\* InsertRequestAttempt carrying the error of that attempt, before the next
\* call starts; when the insert fails, the retry gets the operation's
\* Result unchanged and goes on as if nothing had failed.
C29_AttemptRecorded ==
  /\ \A k \in Operations :
       \/ k = Len(req.events) /\ req.pc = "insert"
       \/ /\ k < Len(req.events)
          /\ req.events[k + 1].call = "InsertRequestAttempt"
          /\ req.events[k + 1].err = req.events[k].err
  /\ \A k \in Inserts : k - 1 \in Operations
  /\ Cardinality(Inserts) = Len(req.handed)
  /\ Cardinality(Operations) = Len(req.opLog)
  /\ \A k \in Inserts :
       LET j == Cardinality({i \in Inserts : i <= k})
       IN /\ req.events[k].err = req.opLog[j].err
          /\ (~req.events[k].ok => req.handed[j] = req.opLog[j])
  /\ req.retryErr.kind # "wrap"

C29_Witness ==
  /\ req.pc = "done"
  /\ Cardinality(Inserts) = 2
  /\ \A k \in Inserts : ~req.events[k].ok
  /\ req.opLog = <<Recover(Atom("e1")), Finish>>
  /\ Last(req.events) = StorageCall("MarkRequestAsCompleted", Nil, TRUE)

\* C30: Retry returns nil whenever the final mark succeeds, also when the
\* request was marked aborted: the error of the retry is recorded in
\* AbortedRequest.Err only, and a non-nil return value is the wrapped error
\* of a failed storage call.
C30_StorageErrorsOnly ==
  req.pc = "done" =>
    /\ (Last(req.events).ok => req.ret = Nil /\ Len(req.events) \in Marks)
    /\ (req.ret # Nil =>
          /\ ~Last(req.events).ok
          /\ req.ret.kind = "wrap"
          /\ req.ret.errs = <<StorageErr>>)
    /\ (req.retryErr # Nil =>
          /\ req.ret # req.retryErr
          /\ Last(req.events).call = "MarkRequestAsAborted"
          /\ Last(req.events).err = req.retryErr)

C30_Witness ==
  /\ req.pc = "done"
  /\ req.ctx # Nil
  /\ req.retryErr = Joined(Atom("context canceled"), Atom("e1"))
  /\ Last(req.events).call = "MarkRequestAsAborted"
  /\ Last(req.events).ok
  /\ req.ret = Nil


\* ------------------------------------------- the goroutine-ticker Repeater
\* One RepeatContext of the Repeater whose pauses are run by a goroutine:
\* the caller ranges over `ticker` and answers on `execCh`; the goroutine
\* started by tickerContext runs the timers.  Both channels are unbuffered,
\* so a send and its receive are one step.

TkSleepers == {StandardSleeper(0), PauseSleeper(<<PlainDur>>)}

InitTicker ==
  /\ mode = "Retry"
  /\ middlewares = <<>>
  /\ progression = Plain(0)
  /\ retryCount = 0
  /\ CallIdle
  /\ inv = NoInv
  /\ wf = NoWf
  /\ fib = NoFib
  /\ bk = NoBk
  /\ http = NoHttp
  /\ rep = NoRep
  /\ req = NoReq
  /\ lv = NoLv
  /\ two = NoTwo
  /\ pair = NoPair
  /\ f64 = NoF64
  /\ \E n \in 0..MaxRetry, sl \in TkSleepers :
       tk = [cpc |-> "start", gpc |-> "none", repeatTimes |-> n, sleeper |-> sl,
             repeatCount |-> 0, sleepTime |-> 0, ctxDone |-> FALSE,
             repeatCtxDone |-> FALSE, timer |-> "none", wake |-> "none",
             execClosed |-> FALSE, tickerClosed |-> FALSE, calls |-> 0,
             ret |-> FALSE]

TkFrame == <<config, callVars, inv, wf, fib, bk, http, rep, req, lv, two, pair, f64>>

\* variant of TickerAfterSend: the goroutine does not wait for repeatFunc
TickerAfterSend_NoWait(g) == [g EXCEPT !.gpc = "loop", !.repeatCount = @ + 1]

\* the goroutine after `ticker <- struct{}{}`: it waits on `<-ch`
TickerAfterSend(g) == [g EXCEPT !.gpc = "recvCh"]

\* variant of TickerReturn: the goroutine leaves `ticker` open
TickerReturn_LeavesOpen(g) == [g EXCEPT !.gpc = "closed"]

\* the goroutine returns: the deferred close(ticker) runs
TickerReturn(g) == [g EXCEPT !.gpc = "closed", !.tickerClosed = TRUE]

\* a cancellation of repeatCtx wakes a parked select that nothing woke yet
TkCtxDone(g) ==
  [g EXCEPT !.repeatCtxDone = TRUE,
            !.wake = IF g.gpc = "parked" /\ g.wake = "none" /\ ~g.repeatCtxDone
                       THEN "ctx" ELSE @]

\* `needRepeat := repeatFunc()`, the first call
Tk_Start ==
  /\ tk.cpc = "start"
  /\ tk' = [tk EXCEPT !.cpc = "first", !.calls = @ + 1]
  /\ UNCHANGED TkFrame

\* the first call returns: success, or the context is derived, the two
\* deferred calls are registered and tickerContext starts the goroutine
Tk_FirstAnswer ==
  /\ tk.cpc = "first"
  /\ \E needRepeat \in BOOLEAN :
       tk' = IF ~needRepeat
               THEN [tk EXCEPT !.cpc = "done", !.ret = TRUE]
             ELSE [tk EXCEPT !.cpc = "range", !.gpc = "loop",
                             !.repeatCtxDone = tk.ctxDone]
  /\ UNCHANGED TkFrame

\* the goroutine's `for repeatCount < r.repeatTimes`: the next timer is
\* started, or the loop is over and the goroutine returns
Tk_Loop ==
  /\ tk.gpc = "loop"
  /\ tk' = IF tk.repeatCount < tk.repeatTimes
             THEN [tk EXCEPT !.gpc = "select", !.timer = "running", !.wake = "none",
                             !.sleepTime = SleepTime(tk.sleeper, tk.repeatCount)]
           ELSE TickerReturn(tk)
  /\ UNCHANGED TkFrame

\* the timer of the current pause expires
Tk_TimerExpire ==
  /\ tk.timer = "running"
  /\ tk' = [tk EXCEPT !.timer = "fired",
                      !.wake = IF tk.gpc = "parked" /\ tk.wake = "none"
                                 THEN "timer" ELSE @]
  /\ UNCHANGED TkFrame

\* the caller's context is done, and with it the derived repeatCtx
Tk_Cancel ==
  /\ tk.cpc \notin {"start", "done"}
  /\ ~tk.ctxDone
  /\ tk' = [TkCtxDone(tk) EXCEPT !.ctxDone = TRUE]
  /\ UNCHANGED TkFrame

\* the goroutine's select finds no case ready and parks
Tk_Park ==
  /\ tk.gpc = "select"
  /\ ~tk.repeatCtxDone
  /\ tk.timer # "fired"
  /\ tk' = [tk EXCEPT !.gpc = "parked"]
  /\ UNCHANGED TkFrame

\* `case <-ctx.Done(): return`
Tk_CtxBranch ==
  /\ \/ tk.gpc = "select" /\ tk.repeatCtxDone
     \/ tk.gpc = "parked" /\ tk.wake = "ctx"
  /\ tk' = TickerReturn(tk)
  /\ UNCHANGED TkFrame

\* `case <-timer.C:` the goroutine goes on to `ticker <- struct{}{}`
Tk_TimerBranch ==
  /\ \/ tk.gpc = "select" /\ tk.timer = "fired"
     \/ tk.gpc = "parked" /\ tk.wake = "timer"
  /\ tk' = [tk EXCEPT !.gpc = "sendTick"]
  /\ UNCHANGED TkFrame

\* the goroutine's send on `ticker` meets the caller's `for range ticker`:
\* the caller calls repeatFunc
Tk_Tick ==
  /\ tk.gpc = "sendTick"
  /\ tk.cpc = "range"
  /\ tk' = [TickerAfterSend(tk) EXCEPT !.cpc = "infunc", !.calls = @ + 1]
  /\ UNCHANGED TkFrame

\* `for range ticker` finds the channel closed: `return false`
Tk_RangeClosed ==
  /\ tk.cpc = "range"
  /\ tk.tickerClosed
  /\ tk' = [tk EXCEPT !.cpc = "closeExec", !.ret = FALSE]
  /\ UNCHANGED TkFrame

\* repeatFunc returns inside the loop: `return true`, or on to the send
Tk_Answer ==
  /\ tk.cpc = "infunc"
  /\ \E needRepeat \in BOOLEAN :
       tk' = IF ~needRepeat
               THEN [tk EXCEPT !.cpc = "closeExec", !.ret = TRUE]
             ELSE [tk EXCEPT !.cpc = "send"]
  /\ UNCHANGED TkFrame

\* the caller's `execCh <- struct{}{}` meets the goroutine's `<-ch`
Tk_Exec ==
  /\ tk.cpc = "send"
  /\ tk.gpc = "recvCh"
  /\ tk' = [tk EXCEPT !.cpc = "range", !.gpc = "loop", !.repeatCount = @ + 1]
  /\ UNCHANGED TkFrame

\* the goroutine's `<-ch` returns at once from the closed execCh
Tk_RecvClosed ==
  /\ tk.gpc = "recvCh"
  /\ tk.execClosed
  /\ tk' = [tk EXCEPT !.gpc = "loop", !.repeatCount = @ + 1]
  /\ UNCHANGED TkFrame

\* the caller returns: the deferred close(execCh) runs first
Tk_CloseExec ==
  /\ tk.cpc = "closeExec"
  /\ tk' = [tk EXCEPT !.cpc = "cancel", !.execClosed = TRUE]
  /\ UNCHANGED TkFrame

\* then the deferred cancel() of repeatCtx, and the caller has returned
Tk_DeferredCancel ==
  /\ tk.cpc = "cancel"
  /\ tk' = [TkCtxDone(tk) EXCEPT !.cpc = "done"]
  /\ UNCHANGED TkFrame

NextTicker ==
  \/ Tk_Start
  \/ Tk_FirstAnswer
  \/ Tk_Loop
  \/ Tk_TimerExpire
  \/ Tk_Cancel
  \/ Tk_Park
  \/ Tk_CtxBranch
  \/ Tk_TimerBranch
  \/ Tk_Tick
  \/ Tk_RangeClosed
  \/ Tk_Answer
  \/ Tk_Exec
  \/ Tk_RecvClosed
  \/ Tk_CloseExec
  \/ Tk_DeferredCancel

SpecTicker == InitTicker /\ [][NextTicker]_vars

\* the steps of the caller and of the goroutine: repeatFunc returns, a
\* runnable goroutine is scheduled, a matched send and receive complete
TkProgram ==
  \/ Tk_Start
  \/ Tk_FirstAnswer
  \/ Tk_Loop
  \/ Tk_Park
  \/ Tk_CtxBranch
  \/ Tk_TimerBranch
  \/ Tk_Tick
  \/ Tk_RangeClosed
  \/ Tk_Answer
  \/ Tk_Exec
  \/ Tk_RecvClosed
  \/ Tk_CloseExec
  \/ Tk_DeferredCancel

\* the Go scheduler runs every runnable goroutine and every started timer
\* expires; nothing obliges the caller's context to be cancelled
SpecTickerFair ==
  /\ InitTicker
  /\ [][NextTicker]_vars
  /\ WF_vars(TkProgram)
  /\ WF_vars(Tk_TimerExpire)

\* repeatFunc is running
TkInFunc == tk.cpc \in {"first", "infunc"}

\* C31: in every interleaving of the caller, the ticker goroutine, the
\* timers and the cancellation, RepeatContext eventually returns: it is
\* never blocked for ever receiving from ticker or sending on execCh
C31_CallerReturns == <>(tk.cpc = "done")

\* a caller that ranged over ticker and sent on execCh has returned false
C31_Witness ==
  /\ tk.cpc = "done"
  /\ tk.calls >= 3
  /\ ~tk.ret

\* C32: once RepeatContext has returned, execCh closed and repeatCtx
\* cancelled, the ticker goroutine is not blocked sending on ticker
C32_GoroutineNotStuck ==
  (tk.cpc = "done" /\ tk.gpc # "none") => tk.gpc # "sendTick"

\* C33: repeatFunc is invoked at most repeatTimes + 1 times, and no pause
\* timer of the call is pending while repeatFunc runs
C33_Alternation ==
  tk.cpc # "none" =>
    /\ tk.calls <= tk.repeatTimes + 1
    /\ ~(TkInFunc /\ tk.timer = "running")

\* repeatFunc runs for the last time the budget allows, after a pause
C33_Witness ==
  /\ tk.cpc = "infunc"
  /\ tk.repeatTimes = 2
  /\ tk.calls = 3
  /\ tk.timer = "fired"


\* --------------------------------------- a Retry call that may never give up
\* One call of the middleware-based Retry whose operation may go on
\* returning non-terminal results for ever.  The call keeps no history, so
\* that an endless run is a cycle of finitely many states.

LvKinds == {"any", "pausing"}

\* the Results the operation may return: a "pausing" operation, once the
\* context is done, asks for a positive sleep with every non-terminal result
LvResults(kind, cause) ==
  LET all == {Continue, Finish, Recover(Atom("e1")), Abort(Atom("e2")),
              RetryAfter(0 - 1), RetryAfter(MaxOverride)}
  IN IF kind = "pausing" /\ cause # Nil
       THEN {r \in all : r.code # codeContinue \/ r.backoff > 0}
       ELSE all

LvMiddlewares == {<<>>} \cup {<<WithMaxRetryCount(n)>> : n \in 0..MaxRetry}

InitLive ==
  /\ mode = "Retry"
  /\ middlewares = <<>>
  /\ progression = Plain(0)
  /\ retryCount = 0
  /\ CallIdle
  /\ inv = NoInv
  /\ wf = NoWf
  /\ fib = NoFib
  /\ bk = NoBk
  /\ http = NoHttp
  /\ rep = NoRep
  /\ req = NoReq
  /\ tk = NoTk
  /\ two = NoTwo
  /\ pair = NoPair
  /\ f64 = NoF64
  /\ \E k \in LvKinds, m \in LvMiddlewares :
       lv = [pc |-> "start", kind |-> k, middlewares |-> m,
             mwAttempt |-> [i \in 1..Len(m) |-> 0], ctx |-> Nil, res |-> Continue,
             timerFired |-> FALSE, wake |-> "none", ret |-> Nil, ended |-> "none"]

LvFrame == <<config, callVars, inv, wf, fib, bk, http, rep, req, tk, two, pair, f64>>

\* variant of LvCtxDone: the ctx.Done() branch calls the operation once more
LvCtxDone_Retries(l) == [l EXCEPT !.pc = "call"]

\* `case <-ctx.Done()`: the call returns the cause, joined with res.err
LvCtxDone(l) ==
  [l EXCEPT !.pc = "done", !.ret = CancelErr(l.ctx, l.res.err), !.ended = "ctx"]

\* `res := rf(ctx)` before the loop, and every later `res = rf(ctx)`
Lv_Call ==
  /\ lv.pc \in {"start", "call"}
  /\ lv' = [lv EXCEPT !.pc = "inop"]
  /\ UNCHANGED LvFrame

\* the wrapped rf returns: a terminal result ends the call, the others lead
\* to the next call (sleepTime <= 0) or to the timer and the select
Lv_Result ==
  /\ lv.pc = "inop"
  /\ \E raw \in LvResults(lv.kind, lv.ctx) :
       LET out == ApplyChain(Len(lv.middlewares), lv.middlewares, lv.mwAttempt, raw)
           me == [lv EXCEPT !.mwAttempt = out.attempts, !.res = out.res]
       IN lv' = IF out.res.code # codeContinue
                  THEN [me EXCEPT !.pc = "done", !.ret = out.res.err,
                                  !.ended = "result"]
                ELSE IF NoSleep(RetrySleepTime(out.res))
                  THEN [me EXCEPT !.pc = "call"]
                ELSE [me EXCEPT !.pc = "select", !.timerFired = FALSE,
                                !.wake = "none"]
  /\ UNCHANGED LvFrame

\* the timer of the current sleep expires
Lv_TimerExpire ==
  /\ lv.pc \in {"select", "parked"}
  /\ ~lv.timerFired
  /\ lv' = [lv EXCEPT !.timerFired = TRUE,
                      !.wake = IF lv.pc = "parked" /\ lv.wake = "none"
                                 THEN "timer" ELSE @]
  /\ UNCHANGED LvFrame

\* the context is cancelled, at any moment of the call
Lv_Cancel ==
  /\ lv.pc # "done"
  /\ lv.ctx = Nil
  /\ \E c \in Causes :
       lv' = [lv EXCEPT !.ctx = c,
                        !.wake = IF lv.pc = "parked" /\ lv.wake = "none"
                                   THEN "ctx" ELSE @]
  /\ UNCHANGED LvFrame

\* the select finds no case ready and parks
Lv_Park ==
  /\ lv.pc = "select"
  /\ lv.ctx = Nil
  /\ ~lv.timerFired
  /\ lv' = [lv EXCEPT !.pc = "parked"]
  /\ UNCHANGED LvFrame

\* the select takes `case <-ctx.Done()`
Lv_CtxBranch ==
  /\ \/ lv.pc = "select" /\ lv.ctx # Nil
     \/ lv.pc = "parked" /\ lv.wake = "ctx"
  /\ lv' = LvCtxDone(lv)
  /\ UNCHANGED LvFrame

\* the select takes `case <-timer.C`: the operation is called again
Lv_TimerBranch ==
  /\ \/ lv.pc = "select" /\ lv.timerFired
     \/ lv.pc = "parked" /\ lv.wake = "timer"
  /\ lv' = [lv EXCEPT !.pc = "call"]
  /\ UNCHANGED LvFrame

NextLive ==
  \/ Lv_Call
  \/ Lv_Result
  \/ Lv_TimerExpire
  \/ Lv_Cancel
  \/ Lv_Park
  \/ Lv_CtxBranch
  \/ Lv_TimerBranch

SpecLive == InitLive /\ [][NextLive]_vars

\* the operation always returns a Result, the goroutine of the call is
\* scheduled, a started timer expires, and a select that finds ctx.Done()
\* ready again and again takes that case in the end (the choice among ready
\* cases is uniformly random); nothing obliges the context to be cancelled
SpecLiveFair ==
  /\ InitLive
  /\ [][NextLive]_vars
  /\ WF_vars(Lv_Call)
  /\ WF_vars(Lv_Result)
  /\ WF_vars(Lv_TimerExpire)
  /\ WF_vars(Lv_Park)
  /\ WF_vars(Lv_TimerBranch)
  /\ SF_vars(Lv_CtxBranch)

\* C34: once the context has been cancelled the Retry call eventually
\* returns, whatever backoff values the operation's non-terminal results
\* carry and also without WithMaxRetryCount
C34_ReturnsOnceCancelled == (lv.pc # "none" /\ lv.ctx # Nil) ~> (lv.pc = "done")

\* C34, amended: once the context has been cancelled the Retry call
\* eventually returns if from then on the operation's non-terminal results
\* carry a positive backoff, also without WithMaxRetryCount
C34_ReturnsIfPausing ==
  (lv.pc # "none" /\ lv.ctx # Nil /\ lv.kind = "pausing") ~> (lv.pc = "done")

\* a call without a budget was ended by the cancellation, at a select
\* that found the context done
C34_Witness ==
  /\ lv.pc = "done"
  /\ lv.kind = "pausing"
  /\ lv.middlewares = <<>>
  /\ lv.ended = "ctx"
  /\ lv.wake = "none"


\* ------------------------------------ two Retry calls, the same Middlewares
\* Two calls of Retry, one after the other or at the same time, are handed
\* the same Middleware values.  Each call applies every Middleware to its
\* rf, which creates the closures and their `attempt` counters anew.  The
\* contexts of the two calls are not cancelled.

TwoCalls == {1, 2}

TwoLists ==
  {<<WithBackoff(b), WithMaxRetryCount(n)>> : b \in {Plain(PlainDur), Arifmetic(0, 1)},
                                              n \in 0..MaxRetry}
  \cup {<<WithMaxRetryCount(n), WithBackoff(Arifmetic(0, 1))>> : n \in 0..MaxRetry}

TwoResults == {Continue, Recover(Atom("e1")), Finish}

InitTwo ==
  /\ mode = "Retry"
  /\ middlewares \in TwoLists
  /\ progression = Plain(0)
  /\ retryCount = 0
  /\ CallIdle
  /\ inv = NoInv
  /\ wf = NoWf
  /\ fib = NoFib
  /\ bk = NoBk
  /\ http = NoHttp
  /\ rep = NoRep
  /\ req = NoReq
  /\ tk = NoTk
  /\ lv = NoLv
  /\ pair = NoPair
  /\ f64 = NoF64
  /\ two = [c \in TwoCalls |->
              [pc |-> "start", attempts |-> <<>>, res |-> Continue,
               rawLog |-> <<>>, outLog |-> <<>>, ret |-> Nil]]

TwoFrame == <<config, callVars, inv, wf, fib, bk, http, rep, req, tk, lv, pair, f64>>

\* variant of TwoCounters: the closures, and so the counters, belong to the
\* Middleware values, and a call goes on from where the other call is
TwoCounters_Shared(t, c) ==
  LET d == CHOOSE x \in TwoCalls : x # c
  IN IF t[d].pc = "start" THEN [i \in 1..Len(middlewares) |-> 0] ELSE t[d].attempts

\* `rf = mdw(rf)` for every middleware: each closure starts at `attempt := 0`
TwoCounters(t, c) == [i \in 1..Len(middlewares) |-> 0]

\* Retry is entered: the chain is built and rf is called
Two_Start(c) ==
  /\ two[c].pc = "start"
  /\ two' = [two EXCEPT ![c].pc = "inop", ![c].attempts = TwoCounters(two, c)]
  /\ UNCHANGED TwoFrame

\* the wrapped rf of call c returns: Retry returns, calls again or sleeps
Two_Result(c) ==
  /\ two[c].pc = "inop"
  /\ \E raw \in TwoResults :
       LET out == ApplyChain(Len(middlewares), middlewares, two[c].attempts, raw)
           me == [two[c] EXCEPT !.attempts = out.attempts, !.res = out.res,
                                !.rawLog = Append(@, raw),
                                !.outLog = Append(@, out.res)]
       IN two' = [two EXCEPT ![c] =
                    IF out.res.code # codeContinue
                      THEN [me EXCEPT !.pc = "done", !.ret = out.res.err]
                    ELSE IF NoSleep(RetrySleepTime(out.res))
                      THEN [me EXCEPT !.pc = "call"]
                    ELSE [me EXCEPT !.pc = "sleep"]]
  /\ UNCHANGED TwoFrame

\* `case <-timer.C` of call c
Two_Timer(c) ==
  /\ two[c].pc = "sleep"
  /\ two' = [two EXCEPT ![c].pc = "call"]
  /\ UNCHANGED TwoFrame

\* `res = rf(ctx)` of call c
Two_Call(c) ==
  /\ two[c].pc = "call"
  /\ two' = [two EXCEPT ![c].pc = "inop"]
  /\ UNCHANGED TwoFrame

NextTwo ==
  \/ \E c \in TwoCalls : Two_Start(c)
  \/ \E c \in TwoCalls : Two_Result(c)
  \/ \E c \in TwoCalls : Two_Timer(c)
  \/ \E c \in TwoCalls : Two_Call(c)

SpecTwo == InitTwo /\ [][NextTwo]_vars

\* the budget and the strategy among the middlewares of the two calls
TwoBudget == (CHOOSE m \in {middlewares[i] : i \in 1..Len(middlewares)} :
                m.kind = "WithMaxRetryCount").maxRetryCount
TwoStrategy == (CHOOSE m \in {middlewares[i] : i \in 1..Len(middlewares)} :
                  m.kind = "WithBackoff").backoff

\* the non-terminal results the operation of a call returned before its k-th
TwoSeen(call, k) == Cardinality(NonTerminalUpTo(call.rawLog, k - 1))

\* C35: each of two Retry calls handed the same Middleware values has the
\* full budget n and a backoff index that starts at 0: what a call is handed
\* depends on its own results only, never on the other call
C35_OwnChain ==
  two # NoTwo =>
    \A c \in TwoCalls : \A k \in 1..Len(two[c].rawLog) :
      two[c].rawLog[k].code = codeContinue =>
        /\ two[c].outLog[k].code # codeContinue <=> TwoSeen(two[c], k) >= TwoBudget
        /\ two[c].outLog[k].code = codeContinue =>
             two[c].outLog[k].backoff = BackoffAt(TwoStrategy, TwoSeen(two[c], k))

\* both calls have used up their budget of 2, the second one while the
\* first one was sleeping after its second result
C35_Witness ==
  /\ two # NoTwo
  /\ TwoBudget = 2
  /\ two[1].pc = "sleep"
  /\ Len(two[1].rawLog) = 2
  /\ two[2].pc = "done"
  /\ Len(two[2].rawLog) = 3
  /\ two[2].ret # Nil


\* ------------------------------------------ two retry calls, side by side
\* Two retry calls are run side by side: their operations return the same
\* scripted Results, their contexts are cancelled at the same point and
\* their selects see the same race.  The pairs are Policy(b, n).RetryContext
\* next to Retry with WithBackoff(b), WithMaxRetryCount(n); Retry with the
\* two middlewares in the one and in the other order; and Retry whose
\* operation writes RetryAfter(0) and RecoverAfter(err, 0) next to Retry
\* whose operation writes Continue() and Recover(err).

PairKinds == {"policy", "orders", "zero"}

PairBackoffs == {Plain(PlainDur), Arifmetic(0, 1), Fibonacci(1)}

PairResults ==
  {Continue, Recover(Atom("e1")), RetryAfter(0 - 1), RetryAfter(MaxOverride),
   Abort(Atom("e2")), Finish}

\* the Result the operation builds when it writes every absent override as
\* an explicit override of zero
ZeroOverride(r) ==
  IF r.code = codeContinue /\ r.backoff = 0
    THEN (IF r.err = Nil THEN RetryAfter(0) ELSE RecoverAfter(r.err, 0))
  ELSE r

\* a call that has not begun: impl is "Policy" or "Retry"
NewRun(impl, mdws, feed) ==
  [impl |-> impl, middlewares |-> mdws, feed |-> feed,
   mwAttempt |-> [i \in 1..Len(mdws) |-> 0], attempt |-> 0, pc |-> "start",
   res |-> Continue, calls |-> 0, fedLog |-> <<>>, outLog |-> <<>>,
   sleepLog |-> <<>>, slept |-> <<>>, ret |-> Nil]

\* the two calls of a pair
PairRuns(kind, b, n) ==
  LET bm == <<WithBackoff(b), WithMaxRetryCount(n)>>
      mb == <<WithMaxRetryCount(n), WithBackoff(b)>>
  IN CASE kind = "policy" -> <<NewRun("Policy", <<>>, "plain"), NewRun("Retry", bm, "plain")>>
       [] kind = "orders" -> <<NewRun("Retry", bm, "plain"), NewRun("Retry", mb, "plain")>>
       [] kind = "zero" -> <<NewRun("Retry", bm, "zero"), NewRun("Retry", bm, "plain")>>

InitPair ==
  /\ mode = "Retry"
  /\ middlewares = <<>>
  /\ progression = Plain(0)
  /\ retryCount = 0
  /\ CallIdle
  /\ inv = NoInv
  /\ wf = NoWf
  /\ fib = NoFib
  /\ bk = NoBk
  /\ http = NoHttp
  /\ rep = NoRep
  /\ req = NoReq
  /\ tk = NoTk
  /\ lv = NoLv
  /\ two = NoTwo
  /\ f64 = NoF64
  /\ \E k \in PairKinds, b \in PairBackoffs, n \in 0..MaxRetry :
       pair = [pc |-> "run", kind |-> k, backoff |-> b, retryCount |-> n,
               ctx |-> Nil, timerFired |-> FALSE, wake |-> "none",
               runs |-> PairRuns(k, b, n)]

PairFrame == <<config, callVars, inv, wf, fib, bk, http, rep, req, tk, lv, two, f64>>

\* rf(ctx) is entered
RunCall(r) ==
  IF r.pc \in {"start", "call"} THEN [r EXCEPT !.pc = "inop", !.calls = @ + 1] ELSE r

\* what the executor of a call is handed for the operation's result, and
\* the counters after it: the Policy is handed the result itself
RunHanded(r, fed) ==
  IF r.impl = "Policy" THEN [res |-> fed, attempts |-> r.mwAttempt]
  ELSE ApplyChain(Len(r.middlewares), r.middlewares, r.mwAttempt, fed)

\* the operation of a call returns raw
RunResult(r, raw, b, n) ==
  IF r.pc # "inop" THEN r
  ELSE
    LET fed == IF r.feed = "zero" THEN ZeroOverride(raw) ELSE raw
        out == RunHanded(r, fed)
        me == [r EXCEPT !.fedLog = Append(@, fed), !.outLog = Append(@, out.res),
                        !.mwAttempt = out.attempts, !.res = out.res]
        exceeded == r.impl = "Policy" /\ ~(r.attempt < n)
        sleepTime == IF r.impl = "Policy" THEN PolicySleepTime(b, r.attempt, out.res)
                     ELSE RetrySleepTime(out.res)
    IN IF out.res.code # codeContinue
         THEN [me EXCEPT !.pc = "done", !.ret = out.res.err]
       ELSE IF exceeded
         THEN [me EXCEPT !.pc = "done", !.res = retryCountExceeded(out.res.err),
                         !.ret = retryCountExceeded(out.res.err).err]
       ELSE [me EXCEPT !.attempt = @ + 1,
                       !.sleepLog = Append(@, sleepTime),
                       !.pc = IF NoSleep(sleepTime) THEN "call" ELSE "select"]

\* the select of a call finds no case ready
RunPark(r) == IF r.pc = "select" THEN [r EXCEPT !.pc = "parked"] ELSE r

\* `case <-ctx.Done()`
RunCtxBranch(r, cause) ==
  IF r.pc \in {"select", "parked"}
    THEN [r EXCEPT !.pc = "done", !.ret = CancelErr(cause, r.res.err)]
  ELSE r

\* `case <-timer.C`
RunTimerBranch(r) ==
  IF r.pc \in {"select", "parked"}
    THEN [r EXCEPT !.pc = "call", !.slept = Append(@, Last(r.sleepLog))]
  ELSE r

\* some call of the pair is at one of the given places
PairAt(pcs) == \E i \in 1..2 : pair.runs[i].pc \in pcs

\* the operation is called
Pair_Call ==
  /\ pair.pc = "run"
  /\ PairAt({"start", "call"})
  /\ pair' = [pair EXCEPT !.runs = [i \in 1..2 |-> RunCall(pair.runs[i])]]
  /\ UNCHANGED PairFrame

\* the operation returns the next Result of the script
Pair_Result ==
  /\ pair.pc = "run"
  /\ PairAt({"inop"})
  /\ \E raw \in PairResults :
       pair' = [pair EXCEPT
                  !.runs = [i \in 1..2 |->
                              RunResult(pair.runs[i], raw, pair.backoff, pair.retryCount)],
                  !.timerFired = FALSE,
                  !.wake = "none"]
  /\ UNCHANGED PairFrame

\* the timer of the current sleep expires
Pair_TimerExpire ==
  /\ pair.pc = "run"
  /\ PairAt({"select", "parked"})
  /\ ~pair.timerFired
  /\ pair' = [pair EXCEPT !.timerFired = TRUE,
                          !.wake = IF PairAt({"parked"}) /\ pair.wake = "none"
                                     THEN "timer" ELSE @]
  /\ UNCHANGED PairFrame

\* the context is cancelled
Pair_Cancel ==
  /\ pair.pc = "run"
  /\ PairAt({"start", "inop", "call", "select", "parked"})
  /\ pair.ctx = Nil
  /\ \E c \in Causes :
       pair' = [pair EXCEPT !.ctx = c,
                            !.wake = IF PairAt({"parked"}) /\ pair.wake = "none"
                                       THEN "ctx" ELSE @]
  /\ UNCHANGED PairFrame

\* the select finds no case ready and parks
Pair_Park ==
  /\ pair.pc = "run"
  /\ PairAt({"select"})
  /\ pair.ctx = Nil
  /\ ~pair.timerFired
  /\ pair' = [pair EXCEPT !.runs = [i \in 1..2 |-> RunPark(pair.runs[i])]]
  /\ UNCHANGED PairFrame

\* the select takes `case <-ctx.Done()`
Pair_CtxBranch ==
  /\ pair.pc = "run"
  /\ \/ PairAt({"select"}) /\ pair.ctx # Nil
     \/ PairAt({"parked"}) /\ pair.wake = "ctx"
  /\ pair' = [pair EXCEPT !.runs = [i \in 1..2 |-> RunCtxBranch(pair.runs[i], pair.ctx)]]
  /\ UNCHANGED PairFrame

\* the select takes `case <-timer.C`
Pair_TimerBranch ==
  /\ pair.pc = "run"
  /\ \/ PairAt({"select"}) /\ pair.timerFired
     \/ PairAt({"parked"}) /\ pair.wake = "timer"
  /\ pair' = [pair EXCEPT !.runs = [i \in 1..2 |-> RunTimerBranch(pair.runs[i])]]
  /\ UNCHANGED PairFrame

NextPair ==
  \/ Pair_Call
  \/ Pair_Result
  \/ Pair_TimerExpire
  \/ Pair_Cancel
  \/ Pair_Park
  \/ Pair_CtxBranch
  \/ Pair_TimerBranch

SpecPair == InitPair /\ [][NextPair]_vars

\* C36: Policy(b, n).RetryContext and Retry with WithBackoff(b) and
\* WithMaxRetryCount(n) invoke the operation the same number of times, sleep
\* the same durations and return the same error, for every script of
\* Results and every cancellation point
C36_PolicyRefinesRetry ==
  pair.pc = "run" /\ pair.kind = "policy" =>
    /\ pair.runs[1].pc = pair.runs[2].pc
    /\ pair.runs[1].calls = pair.runs[2].calls
    /\ pair.runs[1].sleepLog = pair.runs[2].sleepLog
    /\ pair.runs[1].slept = pair.runs[2].slept
    /\ pair.runs[1].ret = pair.runs[2].ret

\* both calls ran out of their budget of 2 after a sleep of the strategy
\* and an immediate retry
C36_Witness ==
  /\ pair.pc = "run"
  /\ pair.kind = "policy"
  /\ pair.backoff = Plain(PlainDur)
  /\ pair.retryCount = 2
  /\ pair.runs[1].pc = "done"
  /\ pair.runs[1].calls = 3
  /\ pair.runs[1].sleepLog = <<PlainDur, 0 - 1>>
  /\ pair.runs[1].ret = Join(ErrRetryCountExceeded, Atom("e1"))

\* C37: WithBackoff(b) and WithMaxRetryCount(n) commute: in both orders the
\* executor is handed the same sequence of Results
C37_MiddlewaresCommute ==
  pair.pc = "run" /\ pair.kind = "orders" =>
    pair.runs[1].outLog = pair.runs[2].outLog

\* the result that exceeds the budget has passed both middlewares
C37_Witness ==
  /\ pair.pc = "run"
  /\ pair.kind = "orders"
  /\ pair.backoff = Plain(PlainDur)
  /\ pair.retryCount = 1
  /\ pair.runs[2].fedLog = <<Continue, Continue>>
  /\ pair.runs[2].outLog = <<RetryAfter(PlainDur), Abort(ErrRetryCountExceeded)>>
  /\ pair.runs[2].mwAttempt = <<1, 2>>

\* the index of the strategy at the k-th result of a call
PairIdx(r, k) == Cardinality(NonTerminalUpTo(r.fedLog, k - 1))

\* C38: a zero override is no override: RetryAfter(0) is Continue() and
\* RecoverAfter(err, 0) is Recover(err), the call that uses them behaves as
\* the call that does not, after such a result the executor sleeps for the
\* strategy's value at the current index, and a retry without sleep where
\* the strategy's value is positive follows a negative override only
C38_ZeroIsNoOverride ==
  pair.pc = "run" /\ pair.kind = "zero" =>
    /\ pair.runs[1].outLog = pair.runs[2].outLog
    /\ pair.runs[1].sleepLog = pair.runs[2].sleepLog
    /\ pair.runs[1].pc = pair.runs[2].pc
    /\ \A k \in 1..Len(pair.runs[1].fedLog) :
         LET r == pair.runs[1]
             value == BackoffAt(pair.backoff, PairIdx(r, k))
         IN r.outLog[k].code = codeContinue =>
              /\ r.fedLog[k].backoff = 0 => RetrySleepTime(r.outLog[k]) = value
              /\ NoSleep(RetrySleepTime(r.outLog[k])) /\ value > 0 =>
                   r.fedLog[k].backoff < 0

\* the operation returned RetryAfter(0) and the call is sleeping for the
\* strategy's positive value
C38_Witness ==
  /\ pair.pc = "run"
  /\ pair.kind = "zero"
  /\ pair.backoff = Plain(PlainDur)
  /\ pair.runs[1].fedLog = <<RetryAfter(0)>>
  /\ pair.runs[1].sleepLog = <<PlainDur>>
  /\ pair.runs[1].pc = "parked"

\* --------------------------------------------- Fibonacci in 64-bit words
\* Fibonacci(base) evaluated as the machine evaluates it: fibonacciIterative
\* adds uint64 words, time.Duration(...) reads the word as an int64 and the
\* product is an int64.  A word is written as WordLimbs limbs of 8 bits,
\* the least significant first.

LimbBase == 256
WordLimbs == 8

\* the word of a number below 2^31
ToWord(n) ==
  [i \in 1..WordLimbs |->
     CASE i = 1 -> n % LimbBase
       [] i = 2 -> (n \div LimbBase) % LimbBase
       [] i = 3 -> (n \div (LimbBase * LimbBase)) % LimbBase
       [] i = 4 -> (n \div (LimbBase * LimbBase * LimbBase)) % LimbBase
       [] OTHER -> 0]

\* the carry out of limb i of x + y
RECURSIVE AddCarry(_, _, _)
AddCarry(x, y, i) ==
  IF i = 0 THEN 0 ELSE (x[i] + y[i] + AddCarry(x, y, i - 1)) \div LimbBase

\* x + y of two uint64, as the machine adds them
AddU64(x, y) ==
  [i \in 1..WordLimbs |-> (x[i] + y[i] + AddCarry(x, y, i - 1)) % LimbBase]

\* the sum of two uint64 does not fit a uint64
AddWraps(x, y) == AddCarry(x, y, WordLimbs) # 0

\* the sum of the limb products x[i] * y[k + 1 - i]
RECURSIVE Column(_, _, _, _)
Column(x, y, k, i) ==
  IF i = 0 THEN 0
  ELSE Column(x, y, k, i - 1)
       + (IF k + 1 - i \in 1..WordLimbs THEN x[i] * y[k + 1 - i] ELSE 0)

\* the carry out of limb k of x * y
RECURSIVE MulCarry(_, _, _)
MulCarry(x, y, k) ==
  IF k = 0 THEN 0
  ELSE (Column(x, y, k, WordLimbs) + MulCarry(x, y, k - 1)) \div LimbBase

\* limb k of the full product of two words
MulLimb(x, y, k) == (Column(x, y, k, WordLimbs) + MulCarry(x, y, k - 1)) % LimbBase

\* x * y of two int64, as the machine multiplies them: the low word
MulI64(x, y) == [k \in 1..WordLimbs |-> MulLimb(x, y, k)]

\* the word read as an int64 is negative
NegativeI64(x) == x[WordLimbs] >= LimbBase \div 2

\* the product of a positive int64 and a uint64 does not fit an int64
MulWraps(x, y) ==
  \/ \E k \in (WordLimbs + 1)..(2 * WordLimbs) : MulLimb(x, y, k) # 0
  \/ NegativeI64(MulI64(x, y))

\* x < y for two words read as unsigned, compared from limb i downwards
RECURSIVE LessFrom(_, _, _)
LessFrom(x, y, i) ==
  IF i = 0 THEN FALSE
  ELSE IF x[i] # y[i] THEN x[i] < y[i]
  ELSE LessFrom(x, y, i - 1)

\* x <= y for two words read as int64
LeqI64(x, y) ==
  IF NegativeI64(x) # NegativeI64(y) THEN NegativeI64(x)
  ELSE ~LessFrom(y, x, WordLimbs)

\* the word read as an int64 is > 0
PositiveI64(x) == ~NegativeI64(x) /\ x # ToWord(0)

\* the bases: a nanosecond and a second
F64Bases == {ToWord(1), ToWord(1000000000)}

F64Calls == 2

InitFib64 ==
  /\ mode = "Retry"
  /\ middlewares = <<>>
  /\ progression = Plain(0)
  /\ retryCount = 0
  /\ CallIdle
  /\ inv = NoInv
  /\ wf = NoWf
  /\ fib = NoFib
  /\ bk = NoBk
  /\ http = NoHttp
  /\ rep = NoRep
  /\ req = NoReq
  /\ tk = NoTk
  /\ lv = NoLv
  /\ two = NoTwo
  /\ pair = NoPair
  /\ \E b \in F64Bases, a \in 0..(MaxIndex - 1) :
       f64 = [pc |-> "ready", base |-> b, attempt |-> a, got |-> <<>>,
              n |-> 0, i |-> 0, n2 |-> ToWord(0), n1 |-> ToWord(0),
              wrapped |-> FALSE]

F64Frame == <<config, callVars, inv, wf, fib, bk, http, rep, req, tk, lv, two, pair>>

\* the Backoff is called at the attempt index, and then at the next one:
\* fibonacciIterative(attempt+1) returns n for n <= 1 and else sets
\* `n2, n1 = 0, 1` and `i := uint64(2)`
F64_Call ==
  /\ f64.pc = "ready"
  /\ Len(f64.got) < F64Calls
  /\ LET n == f64.attempt + Len(f64.got) + 1
     IN f64' = IF n <= 1
                 THEN [f64 EXCEPT !.pc = "product", !.n = n, !.n1 = ToWord(n),
                                  !.wrapped = FALSE]
               ELSE [f64 EXCEPT !.pc = "loop", !.n = n, !.i = 2, !.n2 = ToWord(0),
                                !.n1 = ToWord(1), !.wrapped = FALSE]
  /\ UNCHANGED F64Frame

\* `for ; i <= n; i++ { n2, n1 = n1, n1+n2 }`, with a note of whether the
\* addition wrapped; after the loop `return n1`
F64_Loop ==
  /\ f64.pc = "loop"
  /\ f64' = IF f64.i <= f64.n
              THEN [f64 EXCEPT !.i = @ + 1, !.n2 = f64.n1,
                               !.n1 = AddU64(f64.n1, f64.n2),
                               !.wrapped = @ \/ AddWraps(f64.n1, f64.n2)]
            ELSE [f64 EXCEPT !.pc = "product"]
  /\ UNCHANGED F64Frame

\* `return base * time.Duration(fibonacciIterative(attempt+1))`
F64_Product ==
  /\ f64.pc = "product"
  /\ f64' = [f64 EXCEPT
               !.pc = "ready",
               !.got = Append(@, [value |-> MulI64(f64.base, f64.n1),
                                  wrapped |-> f64.wrapped
                                              \/ MulWraps(f64.base, f64.n1)])]
  /\ UNCHANGED F64Frame

NextFib64 ==
  \/ F64_Call
  \/ F64_Loop
  \/ F64_Product

SpecFib64 == InitFib64 /\ [][NextFib64]_vars

\* C39: for every base > 0 and every attempt index Fibonacci(base)(attempt)
\* is strictly positive and non-decreasing in the attempt, and neither the
\* uint64 accumulator nor the int64 product wraps
C39_FibonacciPositiveMonotone ==
  f64.pc = "ready" =>
    /\ \A k \in 1..Len(f64.got) :
         /\ PositiveI64(f64.got[k].value)
         /\ ~f64.got[k].wrapped
    /\ Len(f64.got) = 2 => LeqI64(f64.got[1].value, f64.got[2].value)

====
